---- MODULE Spec2Model ----
(***************************************************************************)
(* A model of the holo interpreter: the single-pass compiler               *)
(* (compiler.rs), the bytecode chunk (chunk.rs), the stack virtual machine *)
(* (vm.rs), the mark-and-sweep collector (gc.rs) and the string intern     *)
(* table (table.rs).                                                       *)
(***************************************************************************)
EXTENDS Integers, Sequences, FiniteSets, TLC

VARIABLES
    phase,             \* position of the host: "compile", "run" or "done"
    profile,           \* the cargo build profile: "debug" or "release"
    prog,              \* the program under interpretation: a source text, or a
                       \* main function assembled by hand
    comp,              \* the Compiler object (see Compiler_new)
    call_stack,        \* VM.call_stack
    current_frame,     \* VM.current_frame
    stack,             \* VM.stack
    stale,             \* the slots of the stack buffer above stack.len()
    open_upvalues,     \* VM.open_upvalues
    gc,                \* VM.gc
    str_intern_table,  \* VM.str_intern_table
    globals,           \* VM.globals: None, or Some(value), per global slot
    global_var_names,  \* VM.global_var_names
    output_stream,     \* lines written to the output stream
    err_stream,        \* lines written to the error stream
    status,            \* of run(): "running", "ok" (Some), "runtime_error", "none"
                       \* (None), "abort" (the process died)
    ub,                \* an operation with undefined behaviour has executed
    gc_fault,          \* a collection has dereferenced an invalid pointer or
                       \* overflowed its byte accounting
    collections,       \* the collections completed (counted up to MaxCollections)
    last_op            \* the instruction run() dispatched last

vars == <<phase, profile, prog, comp, call_stack, current_frame, stack, stale,
          open_upvalues, gc, str_intern_table, globals, global_var_names,
          output_stream, err_stream, status, ub, gc_fault, collections, last_op>>

-----------------------------------------------------------------------------
(* Small helpers *)

Max(a, b) == IF a >= b THEN a ELSE b

Min(a, b) == IF a <= b THEN a ELSE b

Abs(a) == IF a < 0 THEN 0 - a ELSE a

Sign(a) == IF a > 0 THEN 1 ELSE IF a < 0 THEN 0 - 1 ELSE 0

RECURSIVE Gcd(_, _)
Gcd(a, b) == IF b = 0 THEN a ELSE Gcd(b, a % b)

Last(s) == s[Len(s)]

Front(s) == SubSeq(s, 1, Len(s) - 1)

Range(s) == {s[i] : i \in 1..Len(s)}

\* Vec::truncate
Truncate(s, n) == IF n >= Len(s) THEN s ELSE SubSeq(s, 1, n)

\* usize is 64 bits wide on the targets the interpreter builds for.  A usize
\* is modelled by its two's complement reading, the integer congruent to it
\* modulo 2^64 that lies in -2^63 .. 2^63 - 1: the byte counts of the model
\* stay far from 2^63, so wrapping arithmetic is integer arithmetic and only
\* the order and the saturating cast need the unsigned reading.
USIZE_BITS == 64

\* usize::MAX
USIZE_MAX == -1

\* a < b on usize
UsizeLess(a, b) == IF (a < 0) = (b < 0) THEN a < b ELSE b < 0

-----------------------------------------------------------------------------
(* value.rs: the Value enum.  A value is a record <<t, n, d>>: the variant *)
(* t, and for a Number the f64 as a normalised extended rational n/d       *)
(* (d = 0: n = 1 is +inf, n = -1 is -inf, n = 0 is NaN), for a Bool n in   *)
(* {0,1}, for a heap variant the pointer n (0 is the null pointer).        *)

Nil == [t |-> "Nil", n |-> 0, d |-> 0]

Bool(b) == [t |-> "Bool", n |-> IF b THEN 1 ELSE 0, d |-> 0]

Ratio(n, d) ==
    IF d = 0 THEN [t |-> "Number", n |-> Sign(n), d |-> 0]
    ELSE LET g == Gcd(Abs(n), Abs(d))
             s == IF d < 0 THEN 0 - 1 ELSE 1
         IN [t |-> "Number", n |-> (s * n) \div g, d |-> (s * d) \div g]

Number(n) == Ratio(n, 1)

Obj(t, h) == [t |-> t, n |-> h, d |-> 0]

HeapVariants == {"String", "Function", "Closure", "NativeFunc", "Upvalue",
                 "Class", "ClassInstance", "BoundMethod"}

IsNaN(v) == v.t = "Number" /\ v.d = 0 /\ v.n = 0

\* derive(PartialEq) on Value: same variant and equal payload; f64 equality
\* makes NaN differ from itself; pointers compare by address.
ValueEq(a, b) ==
    /\ a.t = b.t
    /\ a.n = b.n
    /\ a.d = b.d
    /\ ~IsNaN(a)

\* f64 arithmetic on the extended rationals
NumNeg(a) == Ratio(0 - a.n, a.d)

NumAdd(a, b) ==
    IF a.d = 0 \/ b.d = 0
    THEN IF IsNaN(a) \/ IsNaN(b) THEN Ratio(0, 0)
         ELSE IF a.d = 0 /\ b.d = 0
              THEN (IF a.n = b.n THEN a ELSE Ratio(0, 0))
              ELSE IF a.d = 0 THEN a ELSE b
    ELSE Ratio(a.n * b.d + b.n * a.d, a.d * b.d)

NumSub(a, b) == NumAdd(a, NumNeg(b))

NumMul(a, b) ==
    IF a.d = 0 \/ b.d = 0
    THEN IF IsNaN(a) \/ IsNaN(b) \/ a.n = 0 \/ b.n = 0 THEN Ratio(0, 0)
         ELSE Ratio(Sign(a.n) * Sign(b.n), 0)
    ELSE Ratio(a.n * b.n, a.d * b.d)

\* IEEE 754 division: x/0 is an infinity (0/0 and inf/inf are NaN), never a trap
NumDiv(a, b) ==
    IF IsNaN(a) \/ IsNaN(b) THEN Ratio(0, 0)
    ELSE IF b.d = 0 THEN (IF a.d = 0 THEN Ratio(0, 0) ELSE Ratio(0, 1))
    ELSE IF a.d = 0 THEN Ratio(a.n * (IF b.n < 0 THEN 0 - 1 ELSE 1), 0)
    ELSE IF b.n = 0 THEN Ratio(a.n, 0)
    ELSE Ratio(a.n * b.d, a.d * b.n)

\* derive(PartialOrd) on f64: every comparison with NaN is false
NumLess(a, b) ==
    /\ ~IsNaN(a) /\ ~IsNaN(b)
    /\ IF a.d = 0 /\ b.d = 0 THEN a.n < b.n
       ELSE IF a.d = 0 THEN a.n < 0
       ELSE IF b.d = 0 THEN b.n > 0
       ELSE a.n * b.d < b.n * a.d

NumLessEq(a, b) == ~IsNaN(a) /\ ~IsNaN(b) /\ (NumLess(a, b) \/ ValueEq(a, b))

IsFinite(v) == v.t = "Number" /\ v.d # 0

-----------------------------------------------------------------------------
(* chunk.rs: opcodes and the chunk *)

\* enum OpCode, in declaration order: the discriminant of a variant is its
\* position (counted from 0)
OpCodeBase ==
    <<"Constant", "ConstantLong", "Nil", "True", "False", "Return", "Negate",
      "Add", "Sub", "Mult", "Divide", "Ternary", "Not", "Equal", "NotEqual",
      "Greater", "GreaterEqual", "Less", "LessEqual", "Print">>

\* the variants dispatched by VM::run beyond those, in dispatch order
OpCodeExt ==
    <<"Pop", "DefineGlobal", "DefineGlobalLong", "GetGlobal", "GetGlobalLong",
      "SetGlobal", "SetGlobalLong", "GetLocal", "GetLocalLong", "SetLocal",
      "SetLocalLong", "PopN", "PopNLong", "JumpIfFalse", "JumpIfTrue", "Jump",
      "Loop", "Call", "Closure", "ClosureLong", "GetUpvalue", "GetUpvalueLong",
      "SetUpvalue", "SetUpvalueLong", "CloseUpvalue", "Class", "GetProperty",
      "SetProperty", "Method", "Invoke", "Inherit", "GetSuper", "SuperInvoke">>

OpCodes == OpCodeBase \o OpCodeExt

\* impl From<OpCode> for u8
OpByte(name) == (CHOOSE i \in 1..Len(OpCodes) : OpCodes[i] = name) - 1

\* impl From<u8> for OpCode
OpFromByte(b) == IF b + 1 \in 1..Len(OpCodes) THEN OpCodes[b + 1] ELSE "Invalid"

Chunk_new == [code |-> <<>>, constants |-> <<>>, line_info |-> <<>>]

\* a write_byte that opens an entry of the line table for every byte
write_byte_every_entry(chunk, byte, line) ==
    [chunk EXCEPT !.code = Append(@, byte),
                  !.line_info = Append(@, [byte_idx |-> Len(chunk.code), line |-> line])]

write_byte(chunk, byte, line) ==
    LET code == Append(chunk.code, byte)
    IN [chunk EXCEPT
          !.code = code,
          !.line_info =
              IF chunk.line_info # <<>>
              THEN IF Last(chunk.line_info).line # line
                   THEN Append(@, [byte_idx |-> Len(code) - 1, line |-> line])
                   ELSE @
              ELSE Append(@, [byte_idx |-> 0, line |-> line])]

\* write_bytes(&[byte; n], &[line; n]): the first write_byte may open an
\* entry of the line table, the others are on the line of the one before
write_bytes(chunk, byte, line, n) ==
    IF n = 0 THEN chunk
    ELSE LET first == write_byte(chunk, byte, line)
         IN [first EXCEPT !.code = @ \o [i \in 1..(n - 1) |-> byte]]

write_opcode(chunk, opcode, line) == write_byte(chunk, OpByte(opcode), line)

\* the three bytes of a value, low byte first
write_as_24bit_int_low_first(chunk, value, line) ==
    write_byte(write_byte(write_byte(chunk, value % 256, line),
                          (value \div 256) % 256, line),
               (value \div 65536) % 256, line)

write_as_24bit_int(chunk, value, line) ==
    LET b2 == value % 256
        b1 == (value \div 256) % 256
        b0 == (value \div 65536) % 256
    IN write_byte(write_byte(write_byte(chunk, b0, line), b1, line), b2, line)

\* returns <<chunk, index>>
add_constant(chunk, value) ==
    <<[chunk EXCEPT !.constants = Append(@, value)], Len(chunk.constants)>>

read_as_24bit_int(b0, b1, b2) == b0 * 65536 + b1 * 256 + b2

\* partition_point(|x| x.byte_idx <= byte_idx), then line_info[high - 1]
get_line_of(chunk, byte_idx) ==
    LET high == Cardinality({i \in 1..Len(chunk.line_info) :
                               chunk.line_info[i].byte_idx <= byte_idx})
    IN chunk.line_info[high].line

-----------------------------------------------------------------------------
(* sizeof.rs: estimated sizes, with the layout of a 64-bit target *)

SIZE_OF_PTR == 8

SIZE_OF_STRING == 24

SIZE_OF_VEC == 24

SIZE_OF_CHUNK == 72

SIZE_OF_VALUE == 16

SIZE_OF_LINEINFO == 16

SIZE_OF_UPVALUE == 24

SIZE_OF_HASHMAP == 48

\* RawVec growth: the capacity after pushing n elements one by one into an
\* empty Vec (first 4, or 8 for one-byte elements, then doubling)
RECURSIVE GrowCap(_, _)
GrowCap(cap, n) == IF cap >= n THEN cap ELSE GrowCap(2 * cap, n)

VecCap(n, first) == IF n = 0 THEN 0 ELSE GrowCap(first, n)

\* hashbrown: capacity of a map grown by inserting n entries one by one
MapCap(n) ==
    IF n = 0 THEN 0 ELSE IF n <= 3 THEN 3 ELSE IF n <= 7 THEN 7
    ELSE IF n <= 14 THEN 14 ELSE IF n <= 28 THEN 28 ELSE 56

sizeof_String(cap) == SIZE_OF_STRING + cap

sizeof_Vec(cap, elem) == SIZE_OF_VEC + cap * elem

sizeof_Chunk(chunk) ==
    SIZE_OF_CHUNK + sizeof_Vec(VecCap(Len(chunk.code), 8), 1)
                  + sizeof_Vec(VecCap(Len(chunk.constants), 4), SIZE_OF_VALUE)
                  + sizeof_Vec(VecCap(Len(chunk.line_info), 4), SIZE_OF_LINEINFO)

sizeof_Function(f) == sizeof_String(f.name_cap) + 1 + 4 + sizeof_Chunk(f.chunk)

sizeof_Closure(c) == SIZE_OF_PTR + sizeof_Vec(c.cap, SIZE_OF_PTR)

sizeof_NativeFunc(nf) == sizeof_String(nf.name_cap) + 1 + SIZE_OF_PTR

sizeof_Upvalue(u) == SIZE_OF_UPVALUE

sizeof_Class(c) == sizeof_String(c.name_cap)

sizeof_HashMap(cap, k, v) == SIZE_OF_HASHMAP + cap * (k + v)

sizeof_ClassInstance(i) ==
    SIZE_OF_PTR + sizeof_HashMap(i.cap, SIZE_OF_STRING, SIZE_OF_VALUE)

sizeof_BoundMethod(b) == SIZE_OF_PTR + SIZE_OF_PTR

\* the Sizeof impl of the object kept in the GC list `kind`
sizeof(kind, o) ==
    CASE kind = "strings" -> sizeof_String(o.cap)
      [] kind = "functions" -> sizeof_Function(o)
      [] kind = "closures" -> sizeof_Closure(o)
      [] kind = "natives" -> sizeof_NativeFunc(o)
      [] kind = "upvalues" -> sizeof_Upvalue(o)
      [] kind = "classes" -> sizeof_Class(o)
      [] kind = "class_instances" -> sizeof_ClassInstance(o)
      [] kind = "bound_methods" -> sizeof_BoundMethod(o)

-----------------------------------------------------------------------------
(* gc.rs.  The GC object is a record: heap maps every live pointer to the  *)
(* object it owns (a freed pointer leaves the domain), lists holds the     *)
(* per-kind pointer vectors, marked the per-kind mark sets.  The worklists *)
(* are empty whenever no collection is running and live inside             *)
(* trace_references only.                                                  *)

GC_DEFAULT_THRESHOLD == 1024 * 1024

GC_THRESHOLD_GROWTH_FACTOR == 2

Kinds == <<"strings", "functions", "closures", "natives", "upvalues",
           "classes", "class_instances", "bound_methods">>

KindSet == Range(Kinds)

\* the kinds mark_* pushes on a worklist
WorkKinds == KindSet \ {"strings", "natives"}

\* the GC list a Value variant points into
KindOf(t) ==
    CASE t = "String" -> "strings"
      [] t = "Function" -> "functions"
      [] t = "Closure" -> "closures"
      [] t = "NativeFunc" -> "natives"
      [] t = "Upvalue" -> "upvalues"
      [] t = "Class" -> "classes"
      [] t = "ClassInstance" -> "class_instances"
      [] t = "BoundMethod" -> "bound_methods"

GC_new ==
    [bytes_allocated |-> 0,
     next_gc |-> GC_DEFAULT_THRESHOLD,
     heap |-> <<>>,
     lists |-> [k \in KindSet |-> <<>>],
     marked |-> [k \in KindSet |-> {}],
     next_handle |-> 1]

\* alloc_string .. alloc_bound_method and their _ptr forms: account the size,
\* box the object (a fresh address), push the pointer.  Returns <<gc, ptr>>.
alloc(g, kind, o) ==
    LET h == g.next_handle
    IN <<[g EXCEPT !.bytes_allocated = @ + sizeof(kind, o),
                   !.heap = (h :> o) @@ @,
                   !.lists[kind] = Append(@, h),
                   !.next_handle = h + 1],
         h>>

Live(g, h) == h \in DOMAIN g.heap

\* the pointers a value holds, as a set of <<kind, pointer>>
PtrOf(v) == IF v.t \in HeapVariants THEN {<<KindOf(v.t), v.n>>} ELSE {}

\* *location of an upvalue: its own closed field, or a slot of the VM stack
\* buffer (mem is the buffer: the live stack followed by the popped slots)
ReadLocation(u, mem) ==
    IF u.location.closed THEN u.closed
    ELSE IF u.location.idx < Len(mem) THEN mem[u.location.idx + 1]
    ELSE Nil

\* dereferencing `item` in trace_references is undefined: a null or freed pointer
BadDeref(g, item) == ~Live(g, item[2])

\* what trace_references marks when it pops `item` off its worklist
Children(g, mem, item, junk) ==
    LET k == item[1]
        o == g.heap[item[2]]
    IN IF BadDeref(g, item) THEN PtrOf(junk)
       ELSE CASE k = "functions" ->
                   UNION {PtrOf(o.chunk.constants[i]) : i \in 1..Len(o.chunk.constants)}
              [] k = "closures" ->
                   {<<"functions", o.function>>}
                     \cup {<<"upvalues", o.upvalues[i]>> : i \in 1..Len(o.upvalues)}
              [] k = "upvalues" -> PtrOf(ReadLocation(o, mem))
              [] k = "classes" ->
                   {<<"closures", o.methods[m]>> : m \in DOMAIN o.methods}
              [] k = "class_instances" ->
                   {<<"classes", o.class>>}
                     \cup UNION {PtrOf(o.fields[f]) : f \in DOMAIN o.fields}
              [] k = "bound_methods" ->
                   {<<"class_instances", o.receiver>>, <<"closures", o.method>>}

\* mark_value / mark_string .. mark_bound_method on a set of pointers: insert
\* into the mark set of the kind and push on the worklist of the kind.
\* t is [marked, work, ub].
MarkAll(t, ptrs) ==
    LET new == {p \in ptrs : p[2] \notin t.marked[p[1]]}
    IN [t EXCEPT !.marked = [k \in KindSet |-> @[k] \cup {p[2] : p \in {x \in new : x[1] = k}}],
                 !.work = @ \cup {p \in new : p[1] \in WorkKinds}]

mark_value(t, v) == MarkAll(t, PtrOf(v))

\* the loop of trace_references, one round of all six worklists per call
RECURSIVE trace_loop(_, _, _, _)
trace_loop(g, mem, t, junk) ==
    IF t.work = {} THEN t
    ELSE LET items == t.work
             kids == UNION {Children(g, mem, i, junk) : i \in items}
             t1 == [t EXCEPT !.work = {},
                             !.ub = @ \/ (\E i \in items : BadDeref(g, i))]
         IN trace_loop(g, mem, MarkAll(t1, kids), junk)

\* trace_references: returns [marked, work, ub]; ub says a null or freed
\* pointer was dereferenced on the way
trace_references(g, mem, t, junk) == trace_loop(g, mem, t, junk)

clear_marks(g) == [g EXCEPT !.marked = [k \in KindSet |-> {}]]

is_string_marked(g, h) == h \in g.marked["strings"]

\* a should_collect that is true at the threshold already
should_collect_at_threshold(g) == ~UsizeLess(g.bytes_allocated, g.next_gc)

should_collect(g) == UsizeLess(g.next_gc, g.bytes_allocated)

RECURSIVE SumSizes(_, _, _, _)
SumSizes(g, kind, s, i) ==
    IF i > Len(s) THEN 0
    ELSE (IF s[i] \in g.marked[kind] THEN 0 ELSE sizeof(kind, g.heap[s[i]]))
         + SumSizes(g, kind, s, i + 1)

SelectMarked(g, kind) == SelectSeq(g.lists[kind], LAMBDA h : h \in g.marked[kind])

\* the bytes the eight retain passes subtract from bytes_allocated
SweepTotal(g) ==
    LET F[i \in 0..Len(Kinds)] ==
            IF i = 0 THEN 0 ELSE F[i - 1] + SumSizes(g, Kinds[i], g.lists[Kinds[i]], 1)
    IN F[Len(Kinds)]

\* `bytes_allocated -= sizeof` below zero: an overflow panic with overflow
\* checks (debug profile), a wrap-around without (release profile)
SweepUnderflows(g) == SweepTotal(g) > g.bytes_allocated

\* a sweep that takes the unmarked objects off the lists and frees none
sweep_freeing_nothing(g) ==
    LET bytes == g.bytes_allocated - SweepTotal(g)
    IN [g EXCEPT !.bytes_allocated = bytes,
                 !.next_gc = IF bytes < 0 THEN USIZE_MAX
                             ELSE bytes * GC_THRESHOLD_GROWTH_FACTOR,
                 !.lists = [k \in KindSet |-> SelectMarked(g, k)]]

\* sweep: free every unmarked pointer, then set the next threshold
\* (`as usize` of an f64 saturates)
sweep(g) ==
    LET bytes == g.bytes_allocated - SweepTotal(g)
        dead == UNION {{h \in Range(g.lists[k]) : h \notin g.marked[k]} : k \in KindSet}
    IN [g EXCEPT !.bytes_allocated = bytes,
                 !.next_gc = IF bytes < 0 THEN USIZE_MAX
                             ELSE bytes * GC_THRESHOLD_GROWTH_FACTOR,
                 !.heap = [h \in DOMAIN @ \ dead |-> @[h]],
                 !.lists = [k \in KindSet |-> SelectMarked(g, k)]]

-----------------------------------------------------------------------------
(* table.rs: the intern table maps the content of a string to its pointer; *)
(* the key of an entry is a borrow of the string the entry points to, so   *)
(* the table is the set of its pointers.                                   *)

StringInternTable_new == {}

\* HashMap::get with a StrKey: hashing and comparing dereference the keys
TableGet(tbl, g, s) == {h \in tbl : Live(g, h) /\ g.heap[h].s = s}

insert_handle(tbl, h) == tbl \cup {h}

\* an intern that allocates without looking the content up
intern_fresh(tbl, g, s, cap) ==
    [tbl |-> tbl \cup {g.next_handle},
     gc |-> alloc(g, "strings", [s |-> s, cap |-> cap])[1],
     ptr |-> g.next_handle]

\* returns [tbl, gc, ptr]
intern_inner(tbl, g, s, cap) ==
    IF TableGet(tbl, g, s) # {}
    THEN [tbl |-> tbl, gc |-> g, ptr |-> CHOOSE h \in TableGet(tbl, g, s) : TRUE]
    ELSE LET a == alloc(g, "strings", [s |-> s, cap |-> cap])
         IN [tbl |-> insert_handle(tbl, a[2]), gc |-> a[1], ptr |-> a[2]]

\* intern_slice: the allocation is value.to_string(), of exact capacity
intern_slice(tbl, g, s) == intern_inner(tbl, g, s, Len(s))

\* intern_owned: the allocation is the String passed in, with its capacity
intern_owned(tbl, g, s, cap) == intern_inner(tbl, g, s, cap)

\* a clear_unmarked that retains every entry
clear_unmarked_retaining_all(tbl, g) == tbl

clear_unmarked(tbl, g) == {h \in tbl : is_string_marked(g, h)}

-----------------------------------------------------------------------------
(* sym_table.rs: names in insertion order; the index of a name is its      *)
(* position (from 0).  declare and resolve are add and get.                *)

SymIndex(names, name) == (CHOOSE i \in 1..Len(names) : names[i] = name) - 1

\* an add that does not look the name up
sym_add_appending(names, name) == <<Append(names, name), Len(names)>>

\* returns <<names, index>>
sym_add(names, name) ==
    IF name \in Range(names) THEN <<names, SymIndex(names, name)>>
    ELSE <<Append(names, name), Len(names)>>

-----------------------------------------------------------------------------
(* compiler.rs.  The Compiler object is a record c; besides the fields of  *)
(* the struct it carries the scanner (the token sequence toks and the      *)
(* position pos of the next token) and err, the Err(CompileError) in       *)
(* flight: a function applied to a state whose err is set is the `?` that  *)
(* returns it unchanged to the caller; ret holds the value a function      *)
(* returns besides the state.                                              *)

Token(kind, lexeme, line) == [kind |-> kind, lexeme |-> lexeme, line |-> line]

NoErr == [set |-> FALSE, token |-> Token("Eof", "", 0), msg |-> ""]

Failed(c) == c.err.set

\* Err(CompileError::new(token, msg))
Fail(c, token, msg) == [c EXCEPT !.err = [set |-> TRUE, token |-> token, msg |-> msg]]

Function_new(name) ==
    [name |-> name, name_cap |-> Len(name), arity |-> 0, upvalue_count |-> 0,
     chunk |-> Chunk_new, marks |-> <<>>, jumps |-> <<>>, nums |-> <<>>]

Compiler_new(toks, func_name, g, tbl, names, errs) ==
    [toks |-> toks, pos |-> 1,
     curr_token |-> Token("Eof", "", 0),
     prev_token |-> Token("Eof", "", 0),
     function |-> Function_new(func_name),
     locals |-> <<>>,
     curr_depth |-> 0,
     loop_contexts |-> <<>>,
     upvalues |-> <<>>,
     had_error |-> FALSE,
     contexts |-> <<>>,
     gc |-> g,
     str_intern_table |-> tbl,
     sym_table |-> names,
     err_stream |-> errs,
     err |-> NoErr,
     ret |-> 0]

\* Scanner::scan_token: the next token; Eof again once the source is exhausted
scan_token(c) == IF c.pos <= Len(c.toks) THEN c.toks[c.pos] ELSE Last(c.toks)

check(c, kind) == c.curr_token.kind = kind

advance(c) ==
    IF Failed(c) THEN c
    ELSE LET token == scan_token(c)
             c1 == [c EXCEPT !.pos = IF @ <= Len(c.toks) THEN @ + 1 ELSE @,
                             !.prev_token = c.curr_token,
                             !.curr_token = token]
         IN IF token.kind = "Error" THEN Fail(c1, token, token.lexeme) ELSE c1

consume(c, expected, msg) ==
    IF Failed(c) THEN c
    ELSE IF check(c, expected) THEN advance(c)
    ELSE Fail(c, c.curr_token, msg)

\* report_err: consumes the Err in flight
report_err(c) ==
    LET e == c.err
        where == CASE e.token.kind = "Eof" -> " at end of file"
                   [] e.token.kind = "Error" -> ""
                   [] OTHER -> " at '" \o e.token.lexeme \o "'"
    IN [c EXCEPT !.had_error = TRUE,
                 !.err_stream = Append(@, "[line " \o ToString(e.token.line)
                                           \o "] Error" \o where \o ": " \o e.msg),
                 !.err = NoErr]

SyncKinds == {"Eof", "For", "If", "While", "Fun", "Var", "Print"}

RECURSIVE synchronize(_)
synchronize(c) ==
    IF c.curr_token.kind \in SyncKinds THEN c
    ELSE LET a == advance(c)
         IN IF Failed(a) THEN synchronize(report_err(a))
            ELSE IF c.curr_token.kind = "Semicolon" THEN a
            ELSE synchronize(a)

emit_byte(c, byte) ==
    IF Failed(c) THEN c
    ELSE [c EXCEPT !.function.chunk = write_byte(@, byte, c.prev_token.line)]

emit_opcode(c, opcode) ==
    IF Failed(c) THEN c
    ELSE [c EXCEPT !.function.chunk = write_opcode(@, opcode, c.prev_token.line)]

emit_return(c) == emit_opcode(emit_opcode(c, "Nil"), "Return")

U8_MAX == 255

U16_MAX == 65535

MAX24BIT == 16777215

CodeLen(c) == Len(c.function.chunk.code)

\* The field nums of a function is history: where an instruction with an
\* index was written, and the index the compiler gave it.
Numbered(c, at, num) ==
    [c EXCEPT !.function.nums = Append(@, [at |-> at, num |-> num])]

emit_opcode_with_num(c, opcode, opcode_long, num, msg) ==
    IF Failed(c) THEN c
    ELSE IF num <= U8_MAX
    THEN Numbered(emit_byte(emit_opcode(c, opcode), num), CodeLen(c), num)
    ELSE IF num <= MAX24BIT
    THEN LET c1 == emit_opcode(c, opcode_long)
         IN Numbered([c1 EXCEPT !.function.chunk =
                                  write_as_24bit_int(@, num, c.prev_token.line)],
                     CodeLen(c), num)
    ELSE Fail(c, c.prev_token, msg)

emit_opcode_with_constant(c, opcode, value) ==
    IF Failed(c) THEN c
    ELSE LET a == add_constant(c.function.chunk, value)
             c1 == [c EXCEPT !.function.chunk = a[1]]
         IN IF a[2] <= U8_MAX THEN emit_byte(emit_opcode(c1, opcode), a[2])
            ELSE Fail(c1, c.prev_token, "Too many constants in the chunk")

emit_opcode_with_constant_long(c, opcode, opcode_long, value) ==
    IF Failed(c) THEN c
    ELSE LET a == add_constant(c.function.chunk, value)
             c1 == [c EXCEPT !.function.chunk = a[1]]
         IN emit_opcode_with_num(c1, opcode, opcode_long, a[2],
                                 "Too many constants in the chunk")

\* emit_jump returns the offset of the operand: CodeLen(c) - 2 afterwards
emit_jump(c, opcode) ==
    IF Failed(c) THEN c
    ELSE LET line == c.prev_token.line
         IN [c EXCEPT !.function.chunk =
               write_byte(write_byte(write_opcode(@, opcode, line), 0, line), 0, line)]

\* The field jumps of a function is history, as marks is: where the operand
\* of a jump was written and where the compiler meant the jump to go.
Jumped(c, at, target) ==
    [c EXCEPT !.function.jumps = Append(@, [at |-> at, target |-> target])]

\* a patch_jump that writes the low 16 bits of any distance
patch_jump_wrapping(c, offset) ==
    IF Failed(c) THEN c
    ELSE LET jump_dist == CodeLen(c) - offset - 2
         IN Jumped([c EXCEPT !.function.chunk.code[offset + 1] = (jump_dist \div 256) % 256,
                             !.function.chunk.code[offset + 2] = jump_dist % 256],
                   offset, CodeLen(c))

patch_jump(c, offset) ==
    IF Failed(c) THEN c
    ELSE LET jump_dist == CodeLen(c) - offset - 2
         IN IF jump_dist > U16_MAX
            THEN Fail(c, c.prev_token, "Too much jump distance")
            ELSE Jumped([c EXCEPT
                           !.function.chunk.code[offset + 1] = (jump_dist \div 256) % 256,
                           !.function.chunk.code[offset + 2] = jump_dist % 256],
                        offset, CodeLen(c))

emit_loop(c, loop_start) ==
    IF Failed(c) THEN c
    ELSE LET c1 == emit_opcode(c, "Loop")
             jump_dist == CodeLen(c1) - loop_start + 2
         IN IF jump_dist > U16_MAX
            THEN Fail(c1, c.prev_token, "Too much jump distance")
            ELSE Jumped(emit_byte(emit_byte(c1, (jump_dist \div 256) % 256),
                                  jump_dist % 256),
                        CodeLen(c1), loop_start)

-----------------------------------------------------------------------------
(* compiler.rs: locals, upvalues, scopes, loops, contexts *)

Local_new(name, depth, initialized, captured) ==
    [name |-> name, depth |-> depth, initialized |-> initialized, captured |-> captured]

\* the locals of the innermost scope run: indices above the last local whose
\* depth is below curr_depth
ScopeRunStart(locals, depth) ==
    LET below == {i \in 1..Len(locals) : locals[i].depth < depth}
    IN IF below = {} THEN 1 ELSE (CHOOSE i \in below : \A j \in below : j <= i) + 1

\* declare_local: ret is the new index
\* a declare_local that does not look at the locals of the scope
declare_local_unchecked(c, name) ==
    IF Failed(c) THEN c
    ELSE [c EXCEPT !.locals = Append(@, Local_new(name, c.curr_depth, FALSE, FALSE)),
                   !.ret = Len(c.locals)]

declare_local(c, name) ==
    IF Failed(c) THEN c
    ELSE IF \E i \in ScopeRunStart(c.locals, c.curr_depth)..Len(c.locals) :
               c.locals[i].name = name
    THEN Fail(c, c.prev_token, "Redeclaration of variable '" \o name \o "'")
    ELSE [c EXCEPT !.locals = Append(@, Local_new(name, c.curr_depth, FALSE, FALSE)),
                   !.ret = Len(c.locals)]

mark_as_initialized(c, index) ==
    IF Failed(c) THEN c ELSE [c EXCEPT !.locals[index + 1].initialized = TRUE]

\* resolve_local: the index of the last local of that name, or -1
resolve_local(locals, name) ==
    LET hits == {i \in 1..Len(locals) : locals[i].name = name}
    IN IF hits = {} THEN 0 - 1 ELSE (CHOOSE i \in hits : \A j \in hits : j <= i) - 1

\* an add_upvalue that does not look for the upvalue in the list
add_upvalue_appending(dest, is_local, index) ==
    <<Append(dest, [index |-> index, is_local |-> is_local]), Len(dest)>>

\* add_upvalue: returns <<dest, index>>
add_upvalue(dest, is_local, index) ==
    LET hits == {i \in 1..Len(dest) : dest[i].is_local = is_local /\ dest[i].index = index}
    IN IF hits # {} THEN <<dest, (CHOOSE i \in hits : \A j \in hits : i <= j) - 1>>
       ELSE <<Append(dest, [index |-> index, is_local |-> is_local]), Len(dest)>>

\* resolve_upvalue_helper on contexts[..len]: returns <<contexts, index>>
RECURSIVE resolve_upvalue_helper(_, _, _)
resolve_upvalue_helper(contexts, len, name) ==
    IF len = 1 THEN <<contexts, 0 - 1>>
    ELSE LET index == resolve_local(contexts[len - 1].locals, name)
         IN IF index # 0 - 1
            THEN LET a == add_upvalue(contexts[len].upvalues, TRUE, index)
                 IN <<[contexts EXCEPT ![len - 1].locals[index + 1].captured = TRUE,
                                       ![len].upvalues = a[1]],
                      a[2]>>
            ELSE LET r == resolve_upvalue_helper(contexts, len - 1, name)
                 IN IF r[2] # 0 - 1
                    THEN LET a == add_upvalue(r[1][len].upvalues, FALSE, r[2])
                         IN <<[r[1] EXCEPT ![len].upvalues = a[1]], a[2]>>
                    ELSE <<r[1], 0 - 1>>

\* resolve_upvalue: ret is the upvalue index or -1
resolve_upvalue(c, name) ==
    LET len == Len(c.contexts)
    IN IF len = 0 THEN [c EXCEPT !.ret = 0 - 1]
       ELSE LET index == resolve_local(c.contexts[len].locals, name)
            IN IF index # 0 - 1
               THEN LET a == add_upvalue(c.upvalues, TRUE, index)
                    IN [c EXCEPT !.contexts[len].locals[index + 1].captured = TRUE,
                                 !.upvalues = a[1],
                                 !.ret = a[2]]
               ELSE LET r == resolve_upvalue_helper(c.contexts, len, name)
                    IN IF r[2] # 0 - 1
                       THEN LET a == add_upvalue(c.upvalues, FALSE, r[2])
                            IN [c EXCEPT !.contexts = r[1], !.upvalues = a[1], !.ret = a[2]]
                       ELSE [c EXCEPT !.contexts = r[1], !.ret = 0 - 1]

begin_scope(c) == IF Failed(c) THEN c ELSE [c EXCEPT !.curr_depth = @ + 1]

\* end_scope: one CloseUpvalue or Pop per local of the scope, innermost first.
\* Every call follows a begin_scope, so curr_depth is positive here.
\* an end of scope that forgets the locals of the scope and leaves their
\* values on the stack
forget_locals(c) == [c EXCEPT !.locals = SelectSeq(@, LAMBDA l : l.depth < c.curr_depth)]

RECURSIVE end_scope_loop(_)
end_scope_loop(c) ==
    IF c.locals = <<>> \/ Last(c.locals).depth < c.curr_depth THEN c
    ELSE LET c1 == emit_opcode(c, IF Last(c.locals).captured THEN "CloseUpvalue" ELSE "Pop")
         IN end_scope_loop([c1 EXCEPT !.locals = Front(@)])

end_scope(c) ==
    IF Failed(c) THEN c
    ELSE [end_scope_loop(c) EXCEPT !.curr_depth = @ - 1]

\* emit_pop_scopes: the same instructions for every local deeper than
\* upto_depth, without forgetting the locals
RECURSIVE emit_pop_scopes_loop(_, _, _)
emit_pop_scopes_loop(c, i, upto_depth) ==
    IF i = 0 \/ c.locals[i].depth <= upto_depth THEN c
    ELSE emit_pop_scopes_loop(
             emit_opcode(c, IF c.locals[i].captured THEN "CloseUpvalue" ELSE "Pop"),
             i - 1, upto_depth)

emit_pop_scopes(c, upto_depth) ==
    IF Failed(c) THEN c ELSE emit_pop_scopes_loop(c, Len(c.locals), upto_depth)

\* a begin_loop that records where the body begins
begin_loop_at_body(c, loop_start) ==
    IF Failed(c) THEN c
    ELSE [c EXCEPT !.loop_contexts =
            Append(@, [loop_start |-> CodeLen(c), scope_depth |-> c.curr_depth,
                       break_jumps |-> <<>>])]

begin_loop(c, loop_start) ==
    IF Failed(c) THEN c
    ELSE [c EXCEPT !.loop_contexts =
            Append(@, [loop_start |-> loop_start, scope_depth |-> c.curr_depth,
                       break_jumps |-> <<>>])]

RECURSIVE patch_jumps(_, _, _)
patch_jumps(c, jumps, i) ==
    IF i > Len(jumps) THEN c ELSE patch_jumps(patch_jump(c, jumps[i]), jumps, i + 1)

end_loop(c) ==
    IF Failed(c) THEN c
    ELSE patch_jumps([c EXCEPT !.loop_contexts = Front(@)],
                     Last(c.loop_contexts).break_jumps, 1)

push_context(c, func_name) ==
    IF Failed(c) THEN c
    ELSE [c EXCEPT !.contexts = Append(@, [function |-> c.function,
                                           locals |-> c.locals,
                                           curr_depth |-> c.curr_depth,
                                           loop_contexts |-> c.loop_contexts,
                                           upvalues |-> c.upvalues]),
                   !.function = Function_new(func_name),
                   !.locals = <<>>,
                   !.curr_depth = 0,
                   !.loop_contexts = <<>>,
                   !.upvalues = <<>>]

\* pop_context: restores the saved context (the caller keeps the compiled
\* function, c.function before the call)
pop_context(c) ==
    LET saved == Last(c.contexts)
    IN [c EXCEPT !.contexts = Front(@),
                 !.function = saved.function,
                 !.locals = saved.locals,
                 !.curr_depth = saved.curr_depth,
                 !.loop_contexts = saved.loop_contexts,
                 !.upvalues = saved.upvalues]

-----------------------------------------------------------------------------
(* compiler.rs: declarations and statements *)

RECURSIVE descend(_, _, _), declaration(_), statement(_), block(_), function(_), function_params(_),
          fun_declaration(_), var_declaration(_), if_stmt(_), while_stmt(_),
          for_stmt(_), expression(_), parse_precedence(_, _), infix_loop(_, _, _),
          argument_list_loop(_), prefix_rule(_, _, _), infix_rule(_, _, _)

\* `if self.curr_depth > 0 { declare_local } else { sym_table.declare }`:
\* ret is the index
declare_variable(c, name) ==
    IF Failed(c) THEN c
    ELSE IF c.curr_depth > 0 THEN declare_local(c, name)
    ELSE LET a == sym_add(c.sym_table, name)
         IN [c EXCEPT !.sym_table = a[1], !.ret = a[2]]

define_variable(c, index) ==
    emit_opcode_with_num(c, "DefineGlobal", "DefineGlobalLong", index,
                         "Too many globals in the program")

var_declaration(c) ==
    LET defined(c4, index) ==
            IF Failed(c4) THEN c4
            ELSE IF c4.curr_depth > 0 THEN mark_as_initialized(c4, index)
            ELSE define_variable(c4, index)
        initializer(c2) ==
            IF Failed(c2) THEN c2
            ELSE IF check(c2, "Equal") THEN descend("expression", advance(c2), 0)
            ELSE emit_opcode(c2, "Nil")
        declared(c2) ==
            defined(consume(initializer(c2), "Semicolon",
                            "Expected ';' at the end of statement"),
                    c2.ret)
        named(c1) == declared(declare_variable(c1, c1.prev_token.lexeme))
    IN named(consume(c, "Identifier", "Expected variable name"))

\* the parameter loop of function(): ret counts the parameters
function_params(c) ==
    IF Failed(c) THEN c
    ELSE IF c.ret = U8_MAX
    THEN Fail(c, c.prev_token, "Cannot have more than 255 parameters")
    ELSE LET next(c3, arity) ==
                 IF Failed(c3) THEN c3
                 ELSE IF ~check(c3, "Comma") THEN [c3 EXCEPT !.ret = arity]
                 ELSE function_params([advance(c3) EXCEPT !.ret = arity])
             declared(c2) == mark_as_initialized(c2, c2.ret)
             named(c1) == declared(declare_local(c1, c1.prev_token.lexeme))
         IN next(named(consume(c, "Identifier", "Expected parameter name")), c.ret + 1)

function(c) ==
    LET params(c1) ==
            IF Failed(c1) THEN c1
            ELSE IF ~check(c1, "RightParen") THEN function_params([c1 EXCEPT !.ret = 0])
            ELSE [c1 EXCEPT !.ret = 0]
        with_arity(c2) == IF Failed(c2) THEN c2 ELSE [c2 EXCEPT !.function.arity = c2.ret]
        body(c3) ==
            block(consume(consume(c3, "RightParen", "Expected ')' after function parameters"),
                          "LeftBrace", "Expected '{' before function body"))
        finished(c6) == IF Failed(c6) THEN c6 ELSE emit_return(c6)
    IN finished(body(with_arity(params(
           consume(begin_scope(c), "LeftParen", "Expected '(' after function name")))))

\* the upvalue operands of a Closure instruction
RECURSIVE emit_upvalues(_, _, _)
emit_upvalues(c, upvalues, i) ==
    IF i > Len(upvalues) THEN c
    ELSE emit_upvalues(
             emit_byte(emit_byte(c, IF upvalues[i].is_local THEN 1 ELSE 0),
                       upvalues[i].index % 256),
             upvalues, i + 1)

fun_declaration(c) ==
    LET defined(c7, index) ==
            IF Failed(c7) THEN c7
            ELSE IF c7.curr_depth > 0 THEN c7
            ELSE define_variable(c7, index)
        closure(c5, a, upvalues) ==
            emit_upvalues(
                emit_opcode_with_constant_long(
                    [c5 EXCEPT !.gc = a[1]], "Closure", "ClosureLong",
                    Obj("Function", a[2])),
                upvalues, 1)
        popped(c5, fn, upvalues) == closure(c5, alloc(c5.gc, "functions", fn), upvalues)
        compiled(c4) ==
            IF Failed(c4) THEN c4
            ELSE popped(pop_context(c4),
                        [c4.function EXCEPT !.upvalue_count = Len(c4.upvalues)],
                        c4.upvalues)
        declared(c2, name) ==
            defined(compiled(function(push_context(
                        IF c2.curr_depth > 0 THEN mark_as_initialized(c2, c2.ret) ELSE c2,
                        name))),
                    c2.ret)
        named(c1) == declared(declare_variable(c1, c1.prev_token.lexeme), c1.prev_token.lexeme)
    IN named(consume(c, "Identifier", "Expected function name"))

class_declaration(c) ==
    LET body(c5) ==
            consume(consume(c5, "LeftBrace", "Expected '{' before class body"),
                    "RightBrace", "Expected '}' after class body")
        defined(c4, index) ==
            body(IF Failed(c4) \/ c4.curr_depth # 0 THEN c4 ELSE define_variable(c4, index))
        interned(c3, r, index) ==
            defined(emit_opcode_with_constant(
                        [c3 EXCEPT !.str_intern_table = r.tbl, !.gc = r.gc],
                        "Class", Obj("String", r.ptr)),
                    index)
        initialized(c3, class_name, index) ==
            IF Failed(c3) THEN c3
            ELSE interned(c3, intern_slice(c3.str_intern_table, c3.gc, class_name), index)
        declared(c2, class_name) ==
            initialized(IF c2.curr_depth > 0 THEN mark_as_initialized(c2, c2.ret) ELSE c2,
                        class_name, c2.ret)
        named(c1) == declared(declare_variable(c1, c1.prev_token.lexeme), c1.prev_token.lexeme)
    IN named(consume(c, "Identifier", "Expected class name"))

declaration(c) ==
    IF Failed(c) THEN c
    ELSE CASE c.curr_token.kind = "Var" -> var_declaration(advance(c))
           [] c.curr_token.kind = "Fun" -> fun_declaration(advance(c))
           [] c.curr_token.kind = "Class" -> class_declaration(advance(c))
           [] OTHER -> descend("statement", c, 0)

block(c) ==
    IF Failed(c) THEN c
    ELSE CASE c.curr_token.kind = "RightBrace" -> advance(c)
           [] c.curr_token.kind = "Eof" ->
                Fail(c, c.curr_token, "Expected closing '}' for the block")
           [] OTHER -> block(descend("declaration", c, 0))

print_statement(c) ==
    emit_opcode(consume(descend("expression", c, 0), "Semicolon",
                        "Expected ';' at the end of statement"), "Print")

expression_statement(c) ==
    emit_opcode(consume(descend("expression", c, 0), "Semicolon",
                        "Expected ';' at the end of statement"), "Pop")

if_stmt(c) ==
    LET else_branch(c5) ==
            IF Failed(c5) THEN c5
            ELSE IF check(c5, "Else") THEN descend("statement", advance(c5), 0)
            ELSE c5
        then_done(c4, then_jump) ==
            patch_jump(else_branch(emit_opcode(patch_jump(c4, then_jump), "Pop")),
                       CodeLen(c4) - 2)
        then_branch(c2) ==
            then_done(emit_jump(descend("statement", emit_opcode(c2, "Pop"), 0), "Jump"),
                      CodeLen(c2) - 2)
    IN then_branch(emit_jump(
           consume(descend("expression", consume(c, "LeftParen", "Expected '('"), 0),
                   "RightParen", "Expected ')'"),
           "JumpIfFalse"))

while_stmt(c) ==
    LET body(c2, loop_start) ==
            end_loop(emit_opcode(
                patch_jump(emit_loop(descend("statement", emit_opcode(c2, "Pop"), 0),
                                     loop_start),
                           CodeLen(c2) - 2),
                "Pop"))
    IN body(emit_jump(
                consume(descend("expression",
                                consume(begin_loop(c, CodeLen(c)), "LeftParen", "Expected '('"),
                                0),
                        "RightParen", "Expected ')'"),
                "JumpIfFalse"),
            CodeLen(c))

for_stmt(c) ==
    LET exit(c9, exit_jump) ==
            end_scope(end_loop(
                IF exit_jump # 0 - 1 THEN emit_opcode(patch_jump(c9, exit_jump), "Pop")
                ELSE c9))
        body(c7, loop_start, exit_jump) ==
            exit(emit_loop(descend("statement",
                                   begin_loop(consume(c7, "RightParen", "Expected ')'"),
                                              loop_start),
                                   0),
                           loop_start),
                 exit_jump)
        increment(c6, has_update, loop_start, exit_jump) ==
            body(IF has_update
                 THEN patch_jump(emit_loop(emit_opcode(descend("expression", c6, 0), "Pop"),
                                           loop_start),
                                 CodeLen(c6) - 2)
                 ELSE c6,
                 IF has_update THEN CodeLen(c6) ELSE loop_start,
                 exit_jump)
        update(c5, has_update, loop_start, exit_jump) ==
            increment(IF has_update THEN emit_jump(c5, "Jump") ELSE c5,
                      has_update, loop_start, exit_jump)
        condition_end(c4, loop_start, exit_jump) ==
            update(c4, ~Failed(c4) /\ ~check(c4, "RightParen"), loop_start, exit_jump)
        condition(c3, has_cond, loop_start) ==
            condition_end(consume(IF has_cond THEN emit_opcode(c3, "Pop") ELSE c3,
                                  "Semicolon", "Expected ';' at the end of condition"),
                          loop_start,
                          IF has_cond THEN CodeLen(c3) - 2 ELSE 0 - 1)
        initialized(c2, has_cond) ==
            condition(IF has_cond
                      THEN emit_jump(descend("expression", c2, 0), "JumpIfFalse")
                      ELSE c2,
                      has_cond, CodeLen(c2))
        initializer(c1) ==
            IF Failed(c1) THEN c1
            ELSE CASE c1.curr_token.kind = "Var" -> var_declaration(advance(c1))
                   [] c1.curr_token.kind = "Semicolon" -> advance(c1)
                   [] OTHER -> expression_statement(c1)
        scanned(c2) == initialized(c2, ~Failed(c2) /\ ~check(c2, "Semicolon"))
    IN scanned(initializer(consume(begin_scope(c), "LeftParen", "Expected '('")))

return_stmt(c) ==
    IF c.contexts = <<>>
    THEN Fail(c, c.prev_token, "'return' statement can only be used inside a function")
    ELSE consume(emit_opcode(IF check(c, "Semicolon") THEN emit_opcode(c, "Nil")
                             ELSE descend("expression", c, 0),
                             "Return"),
                 "Semicolon", "Expected ';' at the end of statement")

continue_stmt(c) ==
    IF c.loop_contexts = <<>>
    THEN Fail(c, c.prev_token, "Cannot use 'continue' outside of a loop")
    ELSE LET lc == Last(c.loop_contexts)
         IN emit_loop(emit_pop_scopes(consume(c, "Semicolon", "Expected ';'"),
                                      lc.scope_depth),
                      lc.loop_start)

break_stmt(c) ==
    IF c.loop_contexts = <<>>
    THEN Fail(c, c.prev_token, "Cannot use 'break' outside of a loop")
    ELSE LET jumped(c1) ==
                 IF Failed(c1) THEN c1
                 ELSE [c1 EXCEPT !.loop_contexts[Len(c1.loop_contexts)].break_jumps =
                                    Append(@, CodeLen(c1) - 2)]
         IN jumped(emit_jump(emit_pop_scopes(consume(c, "Semicolon", "Expected ';'"),
                                             Last(c.loop_contexts).scope_depth),
                             "Jump"))

statement(c) ==
    LET keyword_stmt(kind, a) ==
            IF Failed(a) THEN a
            ELSE CASE kind = "Continue" -> continue_stmt(a)
                   [] kind = "Break" -> break_stmt(a)
                   [] kind = "Return" -> return_stmt(a)
    IN
    IF Failed(c) THEN c
    ELSE CASE c.curr_token.kind = "Print" -> print_statement(advance(c))
           [] c.curr_token.kind = "LeftBrace" ->
                end_scope(block(begin_scope(advance(c))))
           [] c.curr_token.kind = "If" -> if_stmt(advance(c))
           [] c.curr_token.kind = "While" -> while_stmt(advance(c))
           [] c.curr_token.kind = "For" -> for_stmt(advance(c))
           [] c.curr_token.kind \in {"Continue", "Break", "Return"} ->
                keyword_stmt(c.curr_token.kind, advance(c))
           [] OTHER -> expression_statement(c)

-----------------------------------------------------------------------------
(* compiler.rs: expressions (the Pratt parser) *)

\* enum Precedence: None = 0 .. Primary = 10
Precedences ==
    <<"None", "Assignment", "Or", "And", "Equality", "Comparison", "Term", "Factor",
      "Unary", "Call", "Primary">>

Prec(name) == (CHOOSE i \in 1..Len(Precedences) : Precedences[i] = name) - 1

\* the RULES table: <<prefix rule, infix rule, precedence>> of a token kind
NoRule == <<"None", "None", Prec("None")>>

RULES(kind) ==
    CASE kind = "LeftParen" -> <<"grouping", "call", Prec("Call")>>
      [] kind = "Question" -> <<"None", "ternary", Prec("Assignment")>>
      [] kind = "Dot" -> <<"None", "dot", Prec("Call")>>
      [] kind = "Minus" -> <<"unary", "binary", Prec("Term")>>
      [] kind = "Plus" -> <<"None", "binary", Prec("Term")>>
      [] kind \in {"Slash", "Star"} -> <<"None", "binary", Prec("Factor")>>
      [] kind = "Bang" -> <<"unary", "None", Prec("None")>>
      [] kind \in {"BangEqual", "EqualEqual"} -> <<"None", "binary", Prec("Equality")>>
      [] kind \in {"Greater", "GreaterEqual", "Less", "LessEqual"} ->
           <<"None", "binary", Prec("Comparison")>>
      [] kind = "Identifier" -> <<"variable", "None", Prec("None")>>
      [] kind = "String" -> <<"string", "None", Prec("None")>>
      [] kind = "Number" -> <<"number", "None", Prec("None")>>
      [] kind = "And" -> <<"None", "logical_and", Prec("And")>>
      [] kind \in {"False", "Nil", "True"} -> <<"literal", "None", Prec("None")>>
      [] kind = "Or" -> <<"None", "logical_or", Prec("Or")>>
      [] OTHER -> NoRule

get_rule(kind) == RULES(kind)

\* the instruction binary() emits for an operator token
BinaryOps ==
    [Plus |-> "Add", Minus |-> "Sub", Star |-> "Mult", Slash |-> "Divide",
     EqualEqual |-> "Equal", BangEqual |-> "NotEqual", Greater |-> "Greater",
     GreaterEqual |-> "GreaterEqual", Less |-> "Less", LessEqual |-> "LessEqual"]

expression(c) == descend("parse_precedence", c, Prec("Assignment"))

\* the largest number literal of the programs
MaxLiteral == 20

\* str::parse::<f64> on the number lexemes of the programs
ParseF64 ==
    [x \in {ToString(n) : n \in 0..MaxLiteral} |->
        CHOOSE n \in 0..MaxLiteral : ToString(n) = x]

\* a string of n characters and the literal of a string
RECURSIVE Filler(_)
Filler(n) ==
    IF n = 0 THEN ""
    ELSE LET Twice(half) == half \o half \o (IF n % 2 = 1 THEN "x" ELSE "")
         IN Twice(Filler(n \div 2))

Quoted(s) == "\"" \o s \o "\""

\* the strings of the program that allocates up to the initial threshold,
\* to the byte: the string it doubles, and a padding
Seed == Filler(1024)

Padding == Filler(141)

\* &lexeme[1..lexeme.len() - 1] on the string lexemes of the programs
Unquote ==
    ("\"a\"" :> "a") @@ ("\"b\"" :> "b") @@ ("\"ab\"" :> "ab") @@ ("\"\"" :> "")
    @@ ("\"init\"" :> "init")
    @@ ("\"c\"" :> "c") @@ ("\"u\"" :> "u") @@ ("\"B\"" :> "B") @@ ("\"end\"" :> "end")
    @@ ("\"0123456789abcdef\"" :> "0123456789abcdef")
    @@ (Quoted(Seed) :> Seed) @@ (Quoted(Padding) :> Padding)

number(c) ==
    emit_opcode_with_constant_long(c, "Constant", "ConstantLong",
                                   Number(ParseF64[c.prev_token.lexeme]))

literal(c) ==
    CASE c.prev_token.kind = "Nil" -> emit_opcode(c, "Nil")
      [] c.prev_token.kind = "True" -> emit_opcode(c, "True")
      [] c.prev_token.kind = "False" -> emit_opcode(c, "False")
      [] OTHER -> Fail(c, c.prev_token, "Expected a literal")

string(c) ==
    IF c.prev_token.kind = "String"
    THEN LET interned(r) ==
                 emit_opcode_with_constant_long(
                     [c EXCEPT !.str_intern_table = r.tbl, !.gc = r.gc],
                     "Constant", "ConstantLong", Obj("String", r.ptr))
         IN interned(intern_slice(c.str_intern_table, c.gc, Unquote[c.prev_token.lexeme]))
    ELSE Fail(c, c.prev_token, "Expected a string")

grouping(c) == consume(descend("expression", c, 0), "RightParen", "Expected ')'")

unary(c) ==
    LET operand(c1, operator_kind) ==
            IF Failed(c1) THEN c1
            ELSE CASE operator_kind = "Minus" -> emit_opcode(c1, "Negate")
                   [] operator_kind = "Bang" -> emit_opcode(c1, "Not")
                   [] OTHER -> Fail(c1, c1.prev_token, "Unexpected unary operator")
    IN operand(descend("parse_precedence", c, Prec("Unary")), c.prev_token.kind)

\* Precedence + 1 goes through From<usize>: everything above 9 is Primary
binary(c) ==
    LET operand(c1, operator_token) ==
            IF Failed(c1) THEN c1
            ELSE IF operator_token.kind \in DOMAIN BinaryOps
            THEN emit_opcode(c1, BinaryOps[operator_token.kind])
            ELSE Fail(c1, operator_token, "Unexpected binary operator")
    IN operand(descend("parse_precedence", c,
                       Min(get_rule(c.prev_token.kind)[3] + 1, Prec("Primary"))),
               c.prev_token)

ternary(c) ==
    IF c.prev_token.kind = "Question"
    THEN emit_opcode(
             descend("parse_precedence",
                 consume(descend("parse_precedence", c, Prec("Assignment")), "Colon", "Expected ':'"),
                 Prec("Assignment")),
             "Ternary")
    ELSE Fail(c, c.prev_token, "Expected '?'")

logical_or(c) ==
    IF c.prev_token.kind = "Or"
    THEN LET right(c1) ==
                 patch_jump(descend("parse_precedence", emit_opcode(c1, "Pop"), Prec("And")),
                            CodeLen(c1) - 2)
         IN right(emit_jump(c, "JumpIfTrue"))
    ELSE Fail(c, c.prev_token, "Expected 'or'")

\* an `and` that compiles its right operand to run whatever the left one is
logical_and_eager(c) ==
    IF c.prev_token.kind = "And"
    THEN descend("parse_precedence", emit_opcode(c, "Pop"), Prec("Equality"))
    ELSE Fail(c, c.prev_token, "Expected 'and'")

logical_and(c) ==
    IF c.prev_token.kind = "And"
    THEN LET right(c1) ==
                 patch_jump(descend("parse_precedence", emit_opcode(c1, "Pop"),
                                    Prec("Equality")),
                            CodeLen(c1) - 2)
         IN right(emit_jump(c, "JumpIfFalse"))
    ELSE Fail(c, c.prev_token, "Expected 'and'")

\* the loop of argument_list: ret counts the arguments
argument_list_loop(c) ==
    IF Failed(c) THEN c
    ELSE IF c.ret = U8_MAX
    THEN Fail(c, c.prev_token, "Cannot have more than 255 arguments")
    ELSE LET next(c1, arity) ==
                 IF Failed(c1) THEN c1
                 ELSE IF ~check(c1, "Comma") THEN [c1 EXCEPT !.ret = arity]
                 ELSE argument_list_loop([advance(c1) EXCEPT !.ret = arity])
         IN next(descend("expression", c, 0), c.ret + 1)

argument_list(c) ==
    LET closed(c2, arity) == IF Failed(c2) THEN c2 ELSE [c2 EXCEPT !.ret = arity]
        counted(c1) ==
            closed(consume(c1, "RightParen", "Expected ')' after function arguments"), c1.ret)
    IN counted(IF ~check(c, "RightParen") THEN argument_list_loop([c EXCEPT !.ret = 0])
               ELSE [c EXCEPT !.ret = 0])

call(c) ==
    LET counted(c1) == emit_byte(emit_opcode(c1, "Call"), c1.ret)
    IN counted(argument_list(c))

variable(c, can_assign) ==
    LET named_variable(c2, base, idx) ==
            IF can_assign /\ c2.curr_token.kind = "Equal"
            THEN emit_opcode_with_num(descend("expression", advance(c2), 0), "Set" \o base,
                                      "Set" \o base \o "Long", idx,
                                      "Too many globals in the program")
            ELSE emit_opcode_with_num(c2, "Get" \o base, "Get" \o base \o "Long", idx,
                                      "Too many globals in the program")
        resolved(c1, index, g) ==
            named_variable(
                IF index = 0 - 1 /\ c1.ret = 0 - 1 THEN [c1 EXCEPT !.sym_table = g[1]] ELSE c1,
                IF index # 0 - 1 THEN "Local"
                ELSE IF c1.ret # 0 - 1 THEN "Upvalue" ELSE "Global",
                IF index # 0 - 1 THEN index
                ELSE IF c1.ret # 0 - 1 THEN c1.ret ELSE g[2])
        upvalue(c1, name, index) == resolved(c1, index, sym_add(c1.sym_table, name))
        local(name, index) ==
            IF index # 0 - 1 /\ ~c.locals[index + 1].initialized
            THEN Fail(c, c.prev_token,
                      "Cannot use variable '" \o name \o "' in its own initializer")
            ELSE upvalue(IF index # 0 - 1 THEN c ELSE resolve_upvalue(c, name), name, index)
    IN local(c.prev_token.lexeme, resolve_local(c.locals, c.prev_token.lexeme))

dot(c, can_assign) ==
    LET property(c2, name) ==
            IF can_assign /\ check(c2, "Equal")
            THEN emit_opcode_with_constant(descend("expression", advance(c2), 0),
                                           "SetProperty", name)
            ELSE emit_opcode_with_constant(c2, "GetProperty", name)
        interned(c1, r) ==
            property([c1 EXCEPT !.str_intern_table = r.tbl, !.gc = r.gc],
                     Obj("String", r.ptr))
        named(c1) ==
            IF Failed(c1) THEN c1
            ELSE interned(c1, intern_slice(c1.str_intern_table, c1.gc, c1.prev_token.lexeme))
    IN named(consume(c, "Identifier", "Expected property name"))

prefix_rule(c, rule, can_assign) ==
    CASE rule = "grouping" -> grouping(c)
      [] rule = "unary" -> unary(c)
      [] rule = "variable" -> variable(c, can_assign)
      [] rule = "string" -> string(c)
      [] rule = "number" -> number(c)
      [] rule = "literal" -> literal(c)

infix_rule(c, rule, can_assign) ==
    CASE rule = "call" -> call(c)
      [] rule = "ternary" -> ternary(c)
      [] rule = "dot" -> dot(c, can_assign)
      [] rule = "binary" -> binary(c)
      [] rule = "logical_and" -> logical_and(c)
      [] rule = "logical_or" -> logical_or(c)

\* the while loop of parse_precedence
infix_loop(c, precedence, can_assign) ==
    LET infix(c1, rule) ==
            IF Failed(c1) THEN c1
            ELSE IF rule = "None" THEN Fail(c1, c1.prev_token, "Expected expression")
            ELSE infix_loop(infix_rule(c1, rule, can_assign), precedence, can_assign)
        advanced(c1) == infix(c1, get_rule(c1.prev_token.kind)[2])
    IN IF Failed(c) THEN c
       ELSE IF ~(precedence <= get_rule(c.curr_token.kind)[3]) THEN c
       ELSE advanced(advance(c))

parse_precedence(c, precedence) ==
    LET finished(c2, can_assign) ==
            IF Failed(c2) THEN c2
            ELSE IF can_assign /\ check(c2, "Equal")
            THEN Fail(c2, c2.curr_token, "Invalid assignment target")
            ELSE c2
        prefix(c1, rule, can_assign) ==
            IF Failed(c1) THEN c1
            ELSE IF rule = "None" THEN Fail(c1, c1.prev_token, "Expected expression")
            ELSE finished(infix_loop(prefix_rule(c1, rule, can_assign),
                                     precedence, can_assign),
                          can_assign)
        advanced(c1) ==
            prefix(c1, get_rule(c1.prev_token.kind)[1], precedence <= Prec("Assignment"))
    IN IF Failed(c) THEN c ELSE advanced(advance(c))

\* The recursive descent: a call of declaration, statement, expression or
\* parse_precedence from inside the parser re-enters it here.  A statement or
\* declaration that compiled leaves a mark in the function it is part of (the
\* field marks is history, no field of Function): the code it spans and the
\* locals in scope before and after it.
descend(what, c, arg) ==
    LET marked(c1) ==
            IF Failed(c1) THEN c1
            ELSE [c1 EXCEPT !.function.marks =
                    Append(@, [what |-> what, kind |-> c.curr_token.kind,
                               depth |-> c.curr_depth,
                               from |-> CodeLen(c), locals_before |-> Len(c.locals),
                               to |-> CodeLen(c1), locals_after |-> Len(c1.locals)])]
    IN CASE what = "declaration" -> marked(declaration(c))
         [] what = "statement" -> marked(statement(c))
         [] what = "expression" -> expression(c)
         [] what = "parse_precedence" -> parse_precedence(c, arg)

\* compile(): the first advance, with its error handling
compile_begin(c) ==
    LET advanced(a) == IF Failed(a) THEN synchronize(report_err(a)) ELSE a
    IN advanced(advance(c))

\* an iteration of the loop of compile() that leaves the tokens where they are
compile_declaration_idle(c) == [c EXCEPT !.had_error = TRUE]

\* one iteration of the while loop of compile()
compile_declaration(c) ==
    LET declared(d) == IF Failed(d) THEN synchronize(report_err(d)) ELSE d
    IN declared(descend("declaration", c, 0))

\* finish(): the function is returned iff had_error is false
finish(c) == emit_return(c)

\* a compile that returns its function whatever it reported
returns_some_always(c) == TRUE

finish_returns_some(c) == ~c.had_error

-----------------------------------------------------------------------------
(* vm.rs.  The handlers are functions of the VM object r, a record of the  *)
(* VM variables; a handler applied to an r whose status is no longer       *)
(* "running" is the `?` or `return None` that left run() before it.        *)

VEC_SIZE == 1024

STACK_TRACE_SIZE == 10

Running(r) == r.status = "running"

CallFrame(closure, ip, stack_start) ==
    [closure |-> closure, ip |-> ip, stack_start |-> stack_start]

\* the outcomes of an operation with undefined behaviour: the process dies
\* (a fault, or the null check of an unoptimised build), or an optimised
\* build goes on with whatever the read produced (junk)
GarbageValues == {Nil, Number(0)}

Oracles ==
    {[ub |-> "abort", junk |-> Nil]}
      \cup {[ub |-> "continue", junk |-> v] : v \in GarbageValues}

Continues(r, o) == r.profile = "release" /\ o.ub = "continue"

\* an undefined operation: r1 is the state an optimised build may go on with
Undefined(r, o, r1) ==
    IF Continues(r, o) THEN [r1 EXCEPT !.ub = TRUE]
    ELSE [r EXCEPT !.ub = TRUE, !.status = "abort"]

\* a Rust panic (index out of bounds, unwrap on None, arithmetic overflow)
Panic(r) == [r EXCEPT !.status = "abort"]

\* `return None` out of run() with nothing written
ReturnNone(r) == [r EXCEPT !.status = "none"]

\* Vec::push / pop / truncate on the stack, keeping the buffer above len
RawPush(r, v) ==
    [r EXCEPT !.stack = Append(@, v),
              !.stale = IF @ = <<>> THEN @ ELSE Tail(@)]

RawPop(r) ==
    [r EXCEPT !.stack = Front(@), !.stale = <<Last(r.stack)>> \o @]

RawTruncate(r, n) ==
    IF n >= Len(r.stack) THEN r
    ELSE [r EXCEPT !.stack = SubSeq(@, 1, n),
                   !.stale = SubSeq(r.stack, n + 1, Len(r.stack)) \o @]

SetTop(r, v) == [r EXCEPT !.stack[Len(r.stack)] = v]

\* the function and chunk of a frame
FrameFunction(r, frame) == r.gc.heap[r.gc.heap[frame.closure].function]

FrameLive(r, frame) ==
    Live(r.gc, frame.closure) /\ Live(r.gc, r.gc.heap[frame.closure].function)

chunk(r) == FrameFunction(r, r.current_frame).chunk

\* a trace that starts at the outermost frame
RECURSIVE TraceLinesOutermostFirst(_, _, _)
TraceLinesOutermostFirst(r, frames, i) ==
    IF i > Len(frames) \/ i > STACK_TRACE_SIZE THEN <<>>
    ELSE LET fn == r.gc.heap[r.gc.heap[frames[i].closure].function]
             line == get_line_of(fn.chunk, frames[i].ip - 1)
             function_name == IF fn.name = "<main>" THEN "<main>" ELSE fn.name \o "()"
         IN <<"[line " \o ToString(line) \o "] in " \o function_name>>
              \o TraceLinesOutermostFirst(r, frames, i + 1)

RECURSIVE TraceLines(_, _, _)
TraceLines(r, frames, i) ==
    IF i > Len(frames) \/ i > STACK_TRACE_SIZE THEN <<>>
    ELSE LET frame == frames[Len(frames) + 1 - i]
             fn == FrameFunction(r, frame)
             line == get_line_of(fn.chunk, frame.ip - 1)
             function_name == IF fn.name = "<main>" THEN "<main>" ELSE fn.name \o "()"
         IN <<"[line " \o ToString(line) \o "] in " \o function_name>>
              \o TraceLines(r, frames, i + 1)

\* runtime_error followed by the `return None` of its caller
runtime_error(r, err) ==
    LET frames == [r.call_stack EXCEPT ![Len(r.call_stack)].ip = r.current_frame.ip]
    IN [r EXCEPT !.call_stack = frames,
                 !.err_stream = (@ \o <<"Runtime error: " \o err>>)
                                   \o TraceLines(r, frames, 1),
                 !.status = "runtime_error"]

\* a push that does not look at the length of the stack
push_unchecked(r, value) == IF r.status # "running" THEN r ELSE RawPush(r, value)

push(r, value) ==
    IF ~Running(r) THEN r
    ELSE IF Len(r.stack) >= VEC_SIZE
    THEN runtime_error(r, "Stack overflow: maximum stack size is " \o ToString(VEC_SIZE))
    ELSE RawPush(r, value)

\* read_byte, read_int8: ret is the byte read
ip(r) == r.current_frame.ip

ByteAt(r, i) == chunk(r).code[i + 1]

Advance(r, n) == [r EXCEPT !.current_frame.ip = @ + n]

read_int16_at(r, i) == ByteAt(r, i) * 256 + ByteAt(r, i + 1)

read_int24_at(r, i) == read_as_24bit_int(ByteAt(r, i), ByteAt(r, i + 1), ByteAt(r, i + 2))

\* the operand of a short (u8) or long (u24) instruction at ip, and the
\* number of bytes it takes
Operand(r, long) == IF long THEN read_int24_at(r, ip(r)) ELSE ByteAt(r, ip(r))

OperandSize(long) == IF long THEN 3 ELSE 1

read_constant(r, long) == chunk(r).constants[Operand(r, long) + 1]

\* Display for f64 on the fractional part: the decimal digits of rem/d
RECURSIVE FracDigits(_, _, _)
FracDigits(rem, d, k) ==
    IF rem = 0 \/ k = 0 THEN ""
    ELSE ToString((rem * 10) \div d) \o FracDigits((rem * 10) % d, d, k - 1)

DisplayNumber(v) ==
    IF v.d = 0 THEN (IF v.n > 0 THEN "inf" ELSE IF v.n < 0 THEN "-inf" ELSE "NaN")
    ELSE IF v.d = 1 THEN ToString(v.n)
    ELSE (IF v.n < 0 THEN "-" ELSE "") \o ToString(Abs(v.n) \div v.d) \o "."
            \o FracDigits(Abs(v.n) % v.d, v.d, 16)

\* impl Display for Value
Display(g, v) ==
    CASE v.t = "Nil" -> "nil"
      [] v.t = "Bool" -> IF v.n = 1 THEN "true" ELSE "false"
      [] v.t = "Number" -> DisplayNumber(v)
      [] v.t = "String" -> g.heap[v.n].s
      [] v.t = "Function" -> "<fn " \o g.heap[v.n].name \o ">"
      [] v.t = "Closure" -> "<fn " \o g.heap[g.heap[v.n].function].name \o ">"
      [] v.t = "NativeFunc" -> "<native fn " \o g.heap[v.n].name \o ">"
      [] v.t = "Upvalue" -> "<upvalue>"
      [] v.t = "Class" -> g.heap[v.n].name
      [] v.t = "ClassInstance" -> g.heap[g.heap[v.n].class].name \o " instance"
      [] v.t = "BoundMethod" -> "<fn " \o g.heap[g.heap[g.heap[v.n].method].function].name \o ">"

-----------------------------------------------------------------------------
(* vm.rs: garbage collection at a safe point *)

None == [some |-> FALSE, v |-> Nil]

Some(v) == [some |-> TRUE, v |-> v]

\* the stack buffer: the live values and the popped slots above them
Buffer(r) == r.stack \o r.stale

\* what collect_garbage marks before tracing
Roots(r) ==
    {<<"closures", r.call_stack[i].closure>> : i \in 1..Len(r.call_stack)}
      \cup {<<"upvalues", r.open_upvalues[i].upvalue>> : i \in 1..Len(r.open_upvalues)}
      \cup UNION {PtrOf(r.stack[i]) : i \in 1..Len(r.stack)}
      \cup UNION {PtrOf(r.globals[i].v) : i \in {j \in 1..Len(r.globals) : r.globals[j].some}}

\* the mark phase: returns [marked, work, ub]
MarkPhase(r, junk) ==
    trace_references(r.gc, Buffer(r),
                     MarkAll([marked |-> [k \in KindSet |-> {}], work |-> {}, ub |-> FALSE],
                             Roots(r)),
                     junk)

\* the collections counted by the history field `collections`
MaxCollections == 3

\* gc_fault and collections are history fields: a collection dereferenced an
\* invalid pointer or overflowed its accounting; the collections completed
collect_garbage(r, o) ==
    LET t == MarkPhase(r, o.junk)
        g == [r.gc EXCEPT !.marked = t.marked]
        r1 == [r EXCEPT !.ub = @ \/ t.ub]
    IN IF t.ub /\ ~Continues(r, o) THEN [r1 EXCEPT !.status = "abort", !.gc_fault = TRUE]
       ELSE IF SweepUnderflows(g) /\ r.profile = "debug"
       THEN [Panic(r1) EXCEPT !.gc_fault = TRUE]
       ELSE [r1 EXCEPT !.str_intern_table = clear_unmarked(@, g),
                       !.gc = sweep(g),
                       !.gc_fault = @ \/ t.ub \/ SweepUnderflows(g),
                       !.collections = Min(@ + 1, MaxCollections)]

attempt_gc(r, o) ==
    IF ~Running(r) THEN r
    ELSE IF should_collect(r.gc) THEN collect_garbage(r, o)
    ELSE r

-----------------------------------------------------------------------------
(* vm.rs: the instruction handlers.  Each takes the VM after read_opcode.  *)

\* constants[idx] panics on an index that is not in the pool
op_Constant(r, long) ==
    IF Operand(r, long) >= Len(chunk(r).constants) THEN Panic(Advance(r, OperandSize(long)))
    ELSE push(Advance(r, OperandSize(long)), read_constant(r, long))

\* partition_point(|upvalue| upvalue.stack_index < stack_index) on the
\* sorted list
PartitionPoint(open, stack_index) ==
    Cardinality({i \in 1..Len(open) : open[i].stack_index < stack_index})

\* close_upvalues: every open upvalue at or above stack_index takes the
\* value of its slot into `closed` and points at it
close_upvalues(r, stack_index) ==
    LET pos == PartitionPoint(r.open_upvalues, stack_index)
        drained == {r.open_upvalues[i].upvalue : i \in (pos + 1)..Len(r.open_upvalues)}
    IN [r EXCEPT
          !.open_upvalues = SubSeq(@, 1, pos),
          !.gc.heap = [h \in DOMAIN @ |->
                         IF h \in drained
                         THEN [@[h] EXCEPT !.closed = ReadLocation(r.gc.heap[h], Buffer(r)),
                                           !.location = [closed |-> TRUE, idx |-> 0]]
                         ELSE @[h]]]

\* a Return that leaves the callee and its arguments on the stack
op_Return_untruncated(r) ==
    LET ret == Last(r.stack)
        r1 == [RawPop(r) EXCEPT !.call_stack = Front(@)]
    IN IF r1.call_stack = <<>> THEN [r1 EXCEPT !.status = "ok"]
       ELSE LET r3 == push(close_upvalues(r1, r1.current_frame.stack_start), ret)
            IN IF Running(r3) THEN [r3 EXCEPT !.current_frame = Last(r3.call_stack)]
               ELSE r3

op_Return(r) ==
    LET ret == Last(r.stack)
        r1 == [RawPop(r) EXCEPT !.call_stack = Front(@)]
    IN IF r1.call_stack = <<>> THEN [r1 EXCEPT !.status = "ok"]
       ELSE LET r2 == RawTruncate(close_upvalues(r1, r1.current_frame.stack_start),
                                  r1.current_frame.stack_start)
                r3 == push(r2, ret)
            IN IF Running(r3) THEN [r3 EXCEPT !.current_frame = Last(r3.call_stack)]
               ELSE r3

op_Negate(r) ==
    IF r.stack = <<>> THEN ReturnNone(r)
    ELSE IF Last(r.stack).t = "Number" THEN SetTop(r, NumNeg(Last(r.stack)))
    ELSE runtime_error(r, "Operand to '-' must be a number")

op_Not(r) ==
    IF r.stack = <<>> THEN ReturnNone(r)
    ELSE IF Last(r.stack).t = "Bool" THEN SetTop(r, Bool(Last(r.stack).n = 0))
    ELSE runtime_error(r, "Operand to '!' must be a bool")

\* binary_number_op, binary_divide and the Number arm of binary_add: the
\* right operand is popped before the operands are matched
binary_number_op(r, result, err) ==
    IF Len(r.stack) < 2 THEN ReturnNone(r)
    ELSE LET right == Last(r.stack)
             r1 == RawPop(r)
             left == Last(r1.stack)
         IN IF left.t = "Number" /\ right.t = "Number" THEN SetTop(r1, result)
            ELSE runtime_error(r1, err)

Left(r) == r.stack[Len(r.stack) - 1]

Right(r) == r.stack[Len(r.stack)]

op_Sub(r) == binary_number_op(r, NumSub(Left(r), Right(r)), "Operands to '-' must be numbers")

op_Mult(r) == binary_number_op(r, NumMul(Left(r), Right(r)), "Operands to '*' must be numbers")

binary_divide(r) ==
    binary_number_op(r, NumDiv(Left(r), Right(r)), "Operands to '/' must be numbers")

binary_number_ordering_op(r, result, err) == binary_number_op(r, Bool(result), err)

op_Greater(r) ==
    binary_number_ordering_op(r, NumLess(Right(r), Left(r)), "Operands to '>' must be numbers")

op_GreaterEqual(r) ==
    binary_number_ordering_op(r, NumLessEq(Right(r), Left(r)),
                              "Operands to '>=' must be numbers")

op_Less(r) ==
    binary_number_ordering_op(r, NumLess(Left(r), Right(r)), "Operands to '<' must be numbers")

op_LessEqual(r) ==
    binary_number_ordering_op(r, NumLessEq(Left(r), Right(r)),
                              "Operands to '<=' must be numbers")

binary_add(r, o) ==
    IF Len(r.stack) < 2 THEN ReturnNone(r)
    ELSE LET right == Right(r)
             left == Left(r)
             r1 == RawPop(r)
         IN IF left.t = "Number" /\ right.t = "Number" THEN SetTop(r1, NumAdd(left, right))
            ELSE IF left.t = "String" /\ right.t = "String"
            THEN IF ~Live(r.gc, left.n) \/ ~Live(r.gc, right.n) THEN Undefined(r, o, r1)
                 ELSE LET s == r.gc.heap[left.n].s \o r.gc.heap[right.n].s
                          i == intern_owned(r1.str_intern_table, r1.gc, s, Len(s))
                      IN attempt_gc([SetTop(r1, Obj("String", i.ptr)) EXCEPT
                                        !.str_intern_table = i.tbl, !.gc = i.gc], o)
            ELSE runtime_error(r1, "Operands to '+' must be two numbers or strings")

op_Equal(r, negate) ==
    IF Len(r.stack) < 2 THEN ReturnNone(r)
    ELSE SetTop(RawPop(r), Bool(ValueEq(Left(r), Right(r)) # negate))

op_Ternary(r) ==
    IF Len(r.stack) < 3 THEN ReturnNone(r)
    ELSE LET else_value == r.stack[Len(r.stack)]
             then_value == r.stack[Len(r.stack) - 1]
             predicate == r.stack[Len(r.stack) - 2]
             r1 == RawPop(RawPop(r))
         IN IF predicate.t = "Bool"
            THEN SetTop(r1, IF predicate.n = 1 THEN then_value ELSE else_value)
            ELSE runtime_error(r1, "Expected a boolean as ternary operator predicate")

op_Print(r, o) ==
    IF r.stack = <<>> THEN ReturnNone(r)
    ELSE LET v == Last(r.stack)
         IN IF v.t \in HeapVariants /\ ~Live(r.gc, v.n) THEN Undefined(r, o, RawPop(r))
            ELSE [RawPop(r) EXCEPT !.output_stream = Append(@, Display(r.gc, v))]

op_Pop(r) ==
    IF r.stack = <<>> THEN ReturnNone(r) ELSE RawPop(r)

define_global(r, index) ==
    IF Len(r.stack) < 1 THEN ReturnNone(r)
    ELSE IF index >= Len(r.globals) THEN Panic(RawPop(r))
    ELSE [RawPop(r) EXCEPT !.globals[index + 1] = Some(Last(r.stack))]

get_global(r, index) ==
    IF index < Len(r.globals) /\ r.globals[index + 1].some
    THEN push(r, r.globals[index + 1].v)
    ELSE IF index >= Len(r.global_var_names) THEN Panic(r)
    ELSE runtime_error(r, "Undefined variable '" \o r.global_var_names[index + 1] \o "'")

\* an assignment that defines the global it finds undefined
set_global_defining(r, index) ==
    IF Len(r.stack) < 1 \/ index >= Len(r.globals) THEN ReturnNone(r)
    ELSE [r EXCEPT !.globals[index + 1] = Some(Last(r.stack))]

set_global(r, index) ==
    IF Len(r.stack) < 1 THEN ReturnNone(r)
    ELSE LET to == Last(r.stack)
             r1 == RawPop(r)
         IN IF index < Len(r.globals) /\ r.globals[index + 1].some
            THEN push([r1 EXCEPT !.globals[index + 1] = Some(to)], to)
            ELSE IF index >= Len(r.global_var_names) THEN Panic(r1)
            ELSE runtime_error(r1, "Undefined variable '"
                                     \o r.global_var_names[index + 1] \o "'")

get_local(r, index) ==
    LET abs_index == r.current_frame.stack_start + index
    IN IF abs_index >= Len(r.stack) THEN Panic(r)
       ELSE push(r, r.stack[abs_index + 1])

set_local(r, index) ==
    LET abs_index == r.current_frame.stack_start + index
    IN IF Len(r.stack) < 1 THEN ReturnNone(r)
       ELSE IF abs_index >= Len(r.stack) THEN Panic(r)
       ELSE [r EXCEPT !.stack[abs_index + 1] = Last(r.stack)]

op_DefineGlobal(r, long) == define_global(Advance(r, OperandSize(long)), Operand(r, long))

op_GetGlobal(r, long) == get_global(Advance(r, OperandSize(long)), Operand(r, long))

op_SetGlobal(r, long) == set_global(Advance(r, OperandSize(long)), Operand(r, long))

op_GetLocal(r, long) == get_local(Advance(r, OperandSize(long)), Operand(r, long))

op_SetLocal(r, long) == set_local(Advance(r, OperandSize(long)), Operand(r, long))

\* `self.stack.len() - n` is a usize subtraction
op_PopN(r, long) ==
    LET n == Operand(r, long)
        r1 == Advance(r, OperandSize(long))
    IN IF n > Len(r.stack)
       THEN (IF r.profile = "debug" THEN Panic(r1) ELSE r1)
       ELSE RawTruncate(r1, Len(r.stack) - n)

\* JumpIfFalse (on = FALSE) and JumpIfTrue (on = TRUE); the backquotes of the
\* message are written as apostrophes
\* the message has bool between two backquotes (vm.rs 295, 311), a character
\* no string of this module can hold: they are written as apostrophes
op_JumpIf(r, on) ==
    LET jump_offset == read_int16_at(r, ip(r))
        r1 == Advance(r, 2)
    IN IF r.stack = <<>> THEN Panic(r1)
       ELSE IF Last(r.stack).t = "Bool"
       THEN (IF (Last(r.stack).n = 1) = on THEN Advance(r1, jump_offset) ELSE r1)
       ELSE runtime_error(r1, "Expected 'bool' as condition")

op_Jump(r) == Advance(Advance(r, 2), read_int16_at(r, ip(r)))

op_Loop(r) == Advance(Advance(r, 2), 0 - read_int16_at(r, ip(r)))

\* VM::call: a new frame over the callee slot and its arguments
\* a call that enters the callee whatever the number of arguments
call_unchecked(r, closure, arity, arg_count) ==
    IF r.status # "running" THEN r
    ELSE [r EXCEPT !.call_stack =
                     Append([@ EXCEPT ![Len(@)].ip = r.current_frame.ip],
                            [closure |-> closure, ip |-> 0,
                             stack_start |-> Len(r.stack) - arg_count - 1]),
                   !.current_frame = [closure |-> closure, ip |-> 0,
                                      stack_start |-> Len(r.stack) - arg_count - 1]]

\* a call whose frame begins at the bottom of the stack
call_from_bottom(r, closure, arity, arg_count) ==
    IF ~Running(r) THEN r
    ELSE IF arity # arg_count
    THEN runtime_error(r, "Incorrect number of arguments: expected "
                            \o ToString(arity) \o ", got " \o ToString(arg_count))
    ELSE [r EXCEPT !.call_stack =
                     Append([@ EXCEPT ![Len(@)].ip = r.current_frame.ip],
                            CallFrame(closure, 0, 0)),
                   !.current_frame = CallFrame(closure, 0, 0)]

VM_call(r, closure, arity, arg_count) ==
    IF ~Running(r) THEN r
    ELSE IF arity # arg_count
    THEN runtime_error(r, "Incorrect number of arguments: expected "
                            \o ToString(arity) \o ", got " \o ToString(arg_count))
    ELSE LET frame == CallFrame(closure, 0, Len(r.stack) - arg_count - 1)
         IN [r EXCEPT !.call_stack =
                        Append([@ EXCEPT ![Len(@)].ip = r.current_frame.ip], frame),
                      !.current_frame = frame]

\* native.rs: NativeFunc::call checks the arity, then runs the function;
\* clock returns the seconds since the epoch
CLOCK_SECONDS == 1000

NativeCall(nf, arg_count) ==
    IF arg_count # nf.arity
    THEN [ok |-> FALSE, v |-> Nil,
          err |-> "Expected " \o ToString(nf.arity) \o " arguments, but got "
                    \o ToString(arg_count) \o "."]
    ELSE [ok |-> TRUE, v |-> Number(CLOCK_SECONDS), err |-> ""]

arity_of(r, closure) == r.gc.heap[r.gc.heap[closure].function].arity

call_value(r, arg_count, o) ==
    IF Len(r.stack) < arg_count + 1 THEN ReturnNone(r)
    ELSE LET slot == Len(r.stack) - arg_count
             callee == r.stack[slot]
         IN CASE callee.t = "Closure" ->
                   VM_call(r, callee.n, arity_of(r, callee.n), arg_count)
              [] callee.t = "NativeFunc" ->
                   LET ret == NativeCall(r.gc.heap[callee.n], arg_count)
                   IN IF ret.ok THEN push(RawTruncate(r, slot - 1), ret.v)
                      ELSE runtime_error(r, ret.err)
              [] callee.t = "Class" ->
                   LET a == alloc(r.gc, "class_instances",
                                  [class |-> callee.n, fields |-> <<>>, cap |-> 0])
                       r1 == attempt_gc([r EXCEPT !.gc = a[1],
                                                  !.stack[slot] = Obj("ClassInstance", a[2])],
                                        o)
                       methods == r.gc.heap[callee.n].methods
                   IN IF ~Running(r1) THEN r1
                      ELSE IF "init" \in DOMAIN methods
                      THEN VM_call(r1, methods["init"], arity_of(r1, methods["init"]), arg_count)
                      ELSE IF arg_count # 0
                      THEN runtime_error(r1, "Expected 0 arguments for class initializer, got "
                                               \o ToString(arg_count))
                      ELSE r1
              [] callee.t = "BoundMethod" ->
                   LET bm == r.gc.heap[callee.n]
                   IN VM_call([r EXCEPT !.stack[slot] = Obj("ClassInstance", bm.receiver)],
                              bm.method, arity_of(r, bm.method), arg_count)
              [] OTHER -> runtime_error(r, "Can only call functions and classes")

op_Call(r, o) == call_value(Advance(r, 1), ByteAt(r, ip(r)), o)

\* value.rs: Closure::new fills the list with upvalue_count null pointers
Closure_new(func, upvalue_count) ==
    [function |-> func,
     upvalues |-> [i \in 1..upvalue_count |-> 0],
     cap |-> upvalue_count]

Upvalue_new(location, closed) == [location |-> location, closed |-> closed]

\* Vec::push: the capacity after pushing onto a Vec of length len
PushCap(len, cap) == IF len < cap THEN cap ELSE Max(2 * cap, Max(len + 1, 4))

upvalues(r) == r.gc.heap[r.current_frame.closure].upvalues

\* capture_local: the upvalue of the slot, found in or inserted into the
\* sorted open list.  Returns r with field ret, the pointer.
capture_local(r, index, o) ==
    LET abs_index == r.current_frame.stack_start + index
        hits == {i \in 1..Len(r.open_upvalues) : r.open_upvalues[i].stack_index = abs_index}
        pos == PartitionPoint(r.open_upvalues, abs_index)
    IN IF abs_index >= Len(r.stack) THEN [Panic(r) EXCEPT !.ret = 0]
       ELSE IF hits # {}
       THEN [r EXCEPT !.ret = r.open_upvalues[CHOOSE i \in hits : TRUE].upvalue]
       ELSE LET a == alloc(r.gc, "upvalues",
                           Upvalue_new([closed |-> FALSE, idx |-> abs_index], Nil))
                r1 == [r EXCEPT !.gc = a[1],
                                !.open_upvalues =
                                    SubSeq(@, 1, pos)
                                      \o <<[stack_index |-> abs_index, upvalue |-> a[2]]>>
                                      \o SubSeq(@, pos + 1, Len(@))]
            IN [attempt_gc(r1, o) EXCEPT !.ret = a[2]]

\* the loop of the Closure handler: pair k of upvalue_count
RECURSIVE closure_upvalues(_, _, _, _, _)
closure_upvalues(r, closure_ptr, k, upvalue_count, o) ==
    IF ~Running(r) \/ k > upvalue_count THEN r
    ELSE LET is_local == ByteAt(r, ip(r)) = 1
             index == ByteAt(r, ip(r) + 1)
             r1 == Advance(r, 2)
             r2 == IF is_local THEN capture_local([r1 EXCEPT !.ret = 0], index, o)
                   ELSE IF index >= Len(upvalues(r1)) THEN [Panic(r1) EXCEPT !.ret = 0]
                   ELSE [r1 EXCEPT !.ret = upvalues(r1)[index + 1]]
         IN IF ~Running(r2) THEN r2
            ELSE IF ~Live(r2.gc, closure_ptr) THEN Undefined(r2, o, r2)
            ELSE closure_upvalues(
                     [r2 EXCEPT !.gc.heap[closure_ptr] =
                         [@ EXCEPT !.upvalues = Append(@, r2.ret),
                                   !.cap = PushCap(Len(r2.gc.heap[closure_ptr].upvalues), @)]],
                     closure_ptr, k + 1, upvalue_count, o)

op_Closure(r, o) ==
    LET constant == read_constant(r, FALSE)
        upvalue_count == r.gc.heap[constant.n].upvalue_count
        a == alloc(r.gc, "closures", Closure_new(constant.n, upvalue_count))
        r1 == push([Advance(r, 1) EXCEPT !.gc = a[1]], Obj("Closure", a[2]))
        r2 == attempt_gc(r1, o)
        r3 == closure_upvalues([r2 EXCEPT !.ret = 0], a[2], 1, upvalue_count, o)
    IN IF constant.t # "Function" THEN Panic(r)
       ELSE [r3 EXCEPT !.ret = 0]

\* ClosureLong, GetUpvalueLong, SetUpvalueLong: empty handlers, which do not
\* even read their operands
op_Unimplemented(r) == r

\* *(*upvalue).location for reading: ok says the dereference is defined
UpvalueLive(r, u) == Live(r.gc, u)

op_GetUpvalue(r, o) ==
    LET index == ByteAt(r, ip(r))
        r1 == Advance(r, 1)
    IN IF index >= Len(upvalues(r)) THEN Panic(r1)
       ELSE LET u == upvalues(r)[index + 1]
            IN IF ~UpvalueLive(r, u) THEN Undefined(r1, o, push(r1, o.junk))
               ELSE push(r1, ReadLocation(r.gc.heap[u], Buffer(r)))

\* *(*upvalue).location = top
WriteLocation(r, u, v) ==
    LET loc == r.gc.heap[u].location
    IN IF loc.closed THEN [r EXCEPT !.gc.heap[u].closed = v]
       ELSE IF loc.idx < Len(r.stack) THEN [r EXCEPT !.stack[loc.idx + 1] = v]
       ELSE IF loc.idx - Len(r.stack) < Len(r.stale)
       THEN [r EXCEPT !.stale[loc.idx - Len(r.stack) + 1] = v]
       ELSE r

op_SetUpvalue(r, o) ==
    LET index == ByteAt(r, ip(r))
        r1 == Advance(r, 1)
    IN IF index >= Len(upvalues(r)) \/ r.stack = <<>> THEN Panic(r1)
       ELSE LET u == upvalues(r)[index + 1]
            IN IF ~UpvalueLive(r, u) THEN Undefined(r1, o, r1)
               ELSE WriteLocation(r1, u, Last(r.stack))

op_CloseUpvalue(r) ==
    IF r.stack = <<>> THEN Panic(r)
    ELSE RawPop(close_upvalues(r, Len(r.stack) - 1))

\* Class::new(name): a class without methods
Class_new(name) == [name |-> name, name_cap |-> Len(name), methods |-> <<>>]

\* ClassInstance::new(class): an instance without fields
ClassInstance_new(class) == [class |-> class, fields |-> <<>>, cap |-> 0]

BoundMethod_new(receiver, method) == [receiver |-> receiver, method |-> method]

\* read_constant followed by as_string().expect(..)
NameOperand(r) == r.gc.heap[read_constant(r, FALSE).n].s

NameOperandOk(r) ==
    read_constant(r, FALSE).t = "String" /\ Live(r.gc, read_constant(r, FALSE).n)

op_Class(r, o) ==
    IF ~NameOperandOk(r) THEN Panic(r)
    ELSE LET a == alloc(r.gc, "classes", Class_new(NameOperand(r)))
         IN attempt_gc(push([Advance(r, 1) EXCEPT !.gc = a[1]], Obj("Class", a[2])), o)

bind_method(r, class, method_name, o) ==
    LET methods == r.gc.heap[class].methods
    IN IF method_name \notin DOMAIN methods
       THEN runtime_error(r, "Undefined property '" \o method_name \o "'")
       ELSE IF Last(r.stack).t # "ClassInstance" THEN Panic(r)
       ELSE LET a == alloc(r.gc, "bound_methods",
                           BoundMethod_new(Last(r.stack).n, methods[method_name]))
            IN attempt_gc(SetTop([r EXCEPT !.gc = a[1]], Obj("BoundMethod", a[2])), o)

\* a lookup that resolves the name against the methods of the class before
\* the fields of the instance
get_property_methods_first(r, o) ==
    IF ~NameOperandOk(r) \/ r.stack = <<>> THEN Panic(r)
    ELSE IF Last(r.stack).t # "ClassInstance"
    THEN runtime_error(Advance(r, 1), "Property must be accessed on a class instance")
    ELSE IF NameOperand(r) \in DOMAIN r.gc.heap[r.gc.heap[Last(r.stack).n].class].methods
               \/ NameOperand(r) \notin DOMAIN r.gc.heap[Last(r.stack).n].fields
    THEN bind_method(Advance(r, 1), r.gc.heap[Last(r.stack).n].class, NameOperand(r), o)
    ELSE SetTop(Advance(r, 1), r.gc.heap[Last(r.stack).n].fields[NameOperand(r)])

op_GetProperty(r, o) ==
    LET r1 == Advance(r, 1)
        top == Last(r.stack)
    IN IF ~NameOperandOk(r) \/ r.stack = <<>> THEN Panic(r)
       ELSE IF top.t # "ClassInstance"
       THEN runtime_error(r1, "Property must be accessed on a class instance")
       ELSE LET instance == r.gc.heap[top.n]
            IN IF NameOperand(r) \in DOMAIN instance.fields
               THEN SetTop(r1, instance.fields[NameOperand(r)])
               ELSE bind_method(r1, instance.class, NameOperand(r), o)

op_SetProperty(r) ==
    LET r1 == RawPop(Advance(r, 1))
        value == Last(r.stack)
    IN IF ~NameOperandOk(r) \/ Len(r.stack) < 2 THEN Panic(r)
       ELSE IF Last(r1.stack).t # "ClassInstance"
       THEN runtime_error(r1, "Property must be accessed on a class instance")
       ELSE LET h == Last(r1.stack).n
                fields == (NameOperand(r) :> value) @@ r.gc.heap[h].fields
            IN SetTop([r1 EXCEPT !.gc.heap[h].fields = fields,
                                 !.gc.heap[h].cap = MapCap(Cardinality(DOMAIN fields))],
                      value)

\* an Inherit that leaves the method map of the subclass as it was
inherit_without_copy(r, o) == IF Len(r.stack) < 2 THEN Panic(r) ELSE RawPop(r)

\* Inherit: the subclass is popped, the superclass stays on the stack; a
\* class that inherits from itself is iterated while it is written to
op_Inherit(r, o) ==
    IF Len(r.stack) < 2 THEN Panic(r)
    ELSE LET r1 == RawPop(r)
             subclass == Last(r.stack)
             superclass == Last(r1.stack)
         IN IF superclass.t # "Class" THEN runtime_error(r1, "Superclass must be a class")
            ELSE IF subclass.t # "Class" THEN Panic(r1)
            ELSE IF subclass.n = superclass.n THEN Undefined(r1, o, r1)
            ELSE [r1 EXCEPT !.gc.heap[subclass.n].methods =
                               r.gc.heap[superclass.n].methods @@ @]

\* Method: define_method
define_method(r) ==
    LET r1 == RawPop(Advance(r, 1))
        method_closure == Last(r.stack)
    IN IF ~NameOperandOk(r) \/ Len(r.stack) < 2 THEN Panic(r)
       ELSE IF method_closure.t # "Closure" \/ Last(r1.stack).t # "Class" THEN Panic(r1)
       ELSE [r1 EXCEPT !.gc.heap[Last(r1.stack).n].methods =
                          (NameOperand(r) :> method_closure.n) @@ @]

\* an invoke_from_class that enters the method whatever the number of
\* arguments
invoke_from_class_unchecked(r, class, method_name, arg_count) ==
    LET methods == r.gc.heap[class].methods
    IN IF method_name \in DOMAIN methods
       THEN call_unchecked(r, methods[method_name], arity_of(r, methods[method_name]),
                           arg_count)
       ELSE runtime_error(r, "Undefined method '" \o method_name \o "'")

invoke_from_class(r, class, method_name, arg_count) ==
    LET methods == r.gc.heap[class].methods
    IN IF method_name \in DOMAIN methods
       THEN VM_call(r, methods[method_name], arity_of(r, methods[method_name]), arg_count)
       ELSE runtime_error(r, "Undefined method '" \o method_name \o "'")

\* Invoke: invoke_method reads the name and the argument count, and looks
\* the name up in the fields of the receiver, then in its class
invoke_method(r, o) ==
    LET r1 == Advance(r, 2)
        arg_count == ByteAt(r, ip(r) + 1)
        slot == Len(r.stack) - arg_count
        receiver == r.stack[slot]
    IN IF ~NameOperandOk(r) THEN Panic(r)
       ELSE IF Len(r.stack) < arg_count + 1 THEN Panic(r1)
       ELSE IF receiver.t # "ClassInstance"
       THEN runtime_error(r1, "Can only call methods on class instances")
       ELSE IF ~Live(r.gc, receiver.n) THEN Undefined(r, o, r1)
       ELSE LET instance == r.gc.heap[receiver.n]
            IN IF NameOperand(r) \in DOMAIN instance.fields
               THEN call_value([r1 EXCEPT !.stack[slot] = instance.fields[NameOperand(r)]],
                               arg_count, o)
               ELSE invoke_from_class(r1, instance.class, NameOperand(r), arg_count)

-----------------------------------------------------------------------------
(* scanner.rs.  A source text is written as the sequence of its lexemes,   *)
(* "\n" standing for a line break; the scanner turns it into the tokens    *)
(* scan_token returns one by one, the last being Eof.                      *)

\* resolve_identifier_kind
KeywordKind ==
    [and |-> "And", break |-> "Break", class |-> "Class", continue |-> "Continue",
     else |-> "Else", false |-> "False", for |-> "For", fun |-> "Fun", if |-> "If",
     nil |-> "Nil", or |-> "Or", print |-> "Print", return |-> "Return",
     super |-> "Super", this |-> "This", true |-> "True", var |-> "Var",
     while |-> "While"]

\* the one- and two-character tokens of scan_token
PunctuationKind ==
    ("(" :> "LeftParen") @@ (")" :> "RightParen") @@ ("{" :> "LeftBrace")
    @@ ("}" :> "RightBrace") @@ ("," :> "Comma") @@ ("." :> "Dot")
    @@ (";" :> "Semicolon") @@ ("?" :> "Question") @@ (":" :> "Colon")
    @@ ("-" :> "Minus") @@ ("+" :> "Plus") @@ ("/" :> "Slash") @@ ("*" :> "Star")
    @@ ("!" :> "Bang") @@ ("!=" :> "BangEqual") @@ ("=" :> "Equal")
    @@ ("==" :> "EqualEqual") @@ (">" :> "Greater") @@ (">=" :> "GreaterEqual")
    @@ ("<" :> "Less") @@ ("<=" :> "LessEqual")

\* lexemes that start with a character no token starts with, and string
\* lexemes that lack their closing quote
UnexpectedChars == {"@", "#"}

UnterminatedStrings == {"\"a"}

make_token(lexeme, line) ==
    IF lexeme \in DOMAIN PunctuationKind THEN Token(PunctuationKind[lexeme], lexeme, line)
    ELSE IF lexeme \in DOMAIN Unquote THEN Token("String", lexeme, line)
    ELSE IF lexeme \in DOMAIN ParseF64 THEN Token("Number", lexeme, line)
    ELSE IF lexeme \in DOMAIN KeywordKind THEN Token(KeywordKind[lexeme], lexeme, line)
    ELSE IF lexeme \in UnexpectedChars THEN Token("Error", "Unexpected char", line)
    ELSE IF lexeme \in UnterminatedStrings THEN Token("Error", "Unterminated string", line)
    ELSE Token("Identifier", lexeme, line)

\* the tokens of a source, Eof last
Scanner(source) ==
    LET NotNewline(i) == source[i] # "\n"
        at == SelectSeq([i \in 1..Len(source) |-> i], NotNewline)
        line(i) == 1 + Cardinality({j \in 1..i : source[j] = "\n"})
    IN [k \in 1..Len(at) |-> make_token(source[at[k]], line(at[k]))]
         \o <<Token("Eof", "", line(Len(source)))>>

-----------------------------------------------------------------------------
(* The programs under interpretation *)

Source(name, text) == [kind |-> "source", name |-> name, text |-> text]

SrcArith ==
    <<"print", "1", "/", "0", ";", "\n",
      "print", "0", "/", "0", "==", "0", "/", "0", ";", "\n",
      "print", "7", "-", "2", "*", "3", ";", "\n",
      "print", "-", "1", "<", "2", "?", "\"a\"", ":", "\"b\"", ";", "\n",
      "print", "!", "true", "or", "nil", "==", "false", ";", "\n",
      "print", "1", "!=", "2", "and", "2", ">=", "2", ";", "\n",
      "print", "1", ">", "2", "or", "1", "<=", "2", ";", "\n",
      "print", "\"a\"", "+", "\"b\"", "==", "\"ab\"", ";", "\n",
      "print", "0", "-", "1", "/", "0", ";", "\n",
      "print", "1", "+", "nil", ";">>

SrcGlobals ==
    <<"var", "x", ";", "\n",
      "print", "x", ";", "\n",
      "x", "=", "1", ";", "\n",
      "var", "x", "=", "x", "+", "1", ";", "\n",
      "print", "x", ";", "\n",
      "y", "=", "3", ";", "\n",
      "print", "4", ";">>

SrcUndefined ==
    <<"print", "1", ";", "\n",
      "print", "z", ";", "\n",
      "var", "z", "=", "1", ";">>

SrcRecursion ==
    <<"fun", "f", "(", ")", "{", "\n",
      "f", "(", ")", ";", "\n",
      "}", "\n",
      "print", "1", ";", "\n",
      "f", "(", ")", ";">>

\* the same with an argument, under a block that holds a local
SrcRecursionArgs ==
    <<"fun", "f", "(", "a", ")", "{", "\n",
      "f", "(", "a", ")", ";", "\n",
      "}", "\n",
      "{", "\n",
      "var", "k", "=", "1", ";", "\n",
      "f", "(", "k", ")", ";", "\n",
      "}">>

SrcTrace ==
    <<"fun", "a", "(", ")", "{", "\n",
      "return", "1", "+", "nil", ";", "\n",
      "}", "\n",
      "fun", "b", "(", ")", "{", "\n",
      "a", "(", ")", ";", "\n",
      "}", "\n",
      "print", "\"a\"", ";", "\n",
      "b", "(", ")", ";", "\n",
      "print", "\"b\"", ";">>

SrcArity ==
    <<"fun", "g", "(", "a", ",", "b", ")", "{", "\n",
      "return", "b", ";", "\n",
      "}", "\n",
      "print", "g", "(", "1", ",", "2", ")", ";", "\n",
      "g", "(", "1", ")", ";", "\n",
      "print", "3", ";">>

SrcNative ==
    <<"print", "clock", "(", ")", ">=", "0", ";", "\n",
      "clock", "(", "1", ")", ";", "\n",
      "print", "3", ";">>

SrcNotCallable ==
    <<"var", "x", "=", "\"a\"", ";", "\n",
      "x", "(", ")", ";", "\n",
      "print", "3", ";">>

SrcClass ==
    <<"class", "A", "{", "}", "\n",
      "var", "a", "=", "A", "(", ")", ";", "\n",
      "a", ".", "x", "=", "1", ";", "\n",
      "print", "a", ".", "x", ";", "\n",
      "print", "A", ";", "\n",
      "A", "(", "1", ")", ";", "\n",
      "print", "3", ";">>

SrcClosure ==
    <<"{", "\n",
      "var", "x", "=", "1", ";", "\n",
      "fun", "get", "(", ")", "{", "return", "x", ";", "}", "\n",
      "fun", "set", "(", ")", "{", "x", "=", "2", ";", "}", "\n",
      "set", "(", ")", ";", "\n",
      "print", "get", "(", ")", ";", "\n",
      "x", "=", "3", ";", "\n",
      "print", "get", "(", ")", ";", "\n",
      "}", "\n",
      "print", "5", ";">>

\* a string doubled until the collector has run, no closure in reach
SrcDoubling ==
    <<"var", "s", "=", "\"0123456789abcdef\"", ";", "\n",
      "var", "i", "=", "0", ";", "\n",
      "while", "(", "i", "<", "17", ")", "{", "\n",
      "s", "=", "s", "+", "s", ";", "\n",
      "i", "=", "i", "+", "1", ";", "\n",
      "}", "\n",
      "print", "i", ";", "\n",
      "print", "\"a\"", "+", "\"b\"", "==", "\"ab\"", ";">>

\* the same with a closure that is created and never called
SrcDoublingClosure ==
    <<"var", "s", "=", "\"0123456789abcdef\"", ";", "\n",
      "var", "i", "=", "0", ";", "\n",
      "{", "\n",
      "var", "keep", "=", "s", ";", "\n",
      "fun", "f", "(", ")", "{", "return", "keep", ";", "}", "\n",
      "while", "(", "i", "<", "17", ")", "{", "\n",
      "s", "=", "s", "+", "s", ";", "\n",
      "i", "=", "i", "+", "1", ";", "\n",
      "}", "\n",
      "}", "\n",
      "print", "i", ";">>

SrcControl ==
    <<"{", "\n",
      "var", "a", "=", "0", ";", "\n",
      "for", "(", "var", "i", "=", "0", ";", "i", "<", "3", ";", "i", "=", "i", "+", "1", ")",
          "{", "\n",
      "if", "(", "i", "==", "1", ")", "continue", ";", "\n",
      "var", "b", "=", "i", ";", "\n",
      "a", "=", "a", "+", "b", ";", "\n",
      "}", "\n",
      "while", "(", "true", ")", "{", "\n",
      "var", "c", "=", "1", ";", "\n",
      "if", "(", "a", ">", "0", ")", "break", ";", "\n",
      "}", "\n",
      "if", "(", "a", "==", "2", ")", "print", "a", ";", "else", "print", "0", ";", "\n",
      "}", "\n",
      "fun", "h", "(", "n", ")", "{", "\n",
      "var", "t", "=", "1", ";", "\n",
      "{", "var", "u", "=", "2", ";", "t", "=", "u", ";", "}", "\n",
      "if", "(", "true", ")", "return", "t", ";", "\n",
      "return", "nil", ";", "\n",
      "}", "\n",
      "print", "h", "(", "0", ")", ";", "\n",
      "{", "\n",
      "var", "x", "=", "1", ";", "\n",
      "fun", "get", "(", ")", "{", "return", "x", ";", "}", "\n",
      "}", "\n",
      "for", "(", ";", ";", ")", "break", ";", "\n",
      "print", "6", ";">>

\* sources with compile errors
SrcErrTwo ==
    <<"var", "1", "=", "2", ";", "\n",
      "print", "3", ";", "\n",
      "print", ";", "\n",
      "print", "4", ";">>

SrcErrToken ==
    <<"print", "1", "@", "2", ";", "\n",
      "1", "=", "2", ";", "\n",
      "print", "\"a", ";", "\n",
      "print", "5", ";">>

SrcErrFunction ==
    <<"fun", "f", "(", ")", "{", "\n",
      "var", ";", "\n",
      "}", "\n",
      "print", "1">>

SrcErrFirst ==
    <<"#", "print", "1", ";", "\n",
      "var", "v", "=", "2", ";">>

SrcEmpty == <<>>

\* 256 statements `0;`, each with a constant of its own: the next constant
\* of the chunk has the index 256
ManyConstants == [i \in 1..(2 * (U8_MAX + 1)) |-> IF i % 2 = 1 THEN "0" ELSE ";"] \o <<"\n">>

SrcLongConstant == ManyConstants \o <<"print", "7", ";", "\n">>

SrcLongFunction ==
    ManyConstants \o
    <<"fun", "f", "(", ")", "{", "print", "1", ";", "}", "\n",
      "f", "(", ")", ";", "\n",
      "print", "2", ";", "\n">>

SrcLongClass == ManyConstants \o <<"class", "A", "{", "}", "\n", "print", "A", ";", "\n">>

\* class A { m() { } n() { } } print A;   with the first k of the methods m, n
MethodNames == <<"m", "n">>

SrcMethods(k) ==
    <<"class", "A", "{", "\n">>
      \o (IF k >= 1 THEN <<"m", "(", ")", "{", "}", "\n">> ELSE <<>>)
      \o (IF k >= 2 THEN <<"n", "(", ")", "{", "}", "\n">> ELSE <<>>)
      \o <<"}", "\n", "print", "A", ";", "\n">>

MethodsTest(k) == [kind |-> "source", name |-> "methods", text |-> SrcMethods(k), k |-> k]

MethodPrograms == {MethodsTest(k) : k \in 0..Len(MethodNames)}

\* fun outer(a, b) { var x = 1; fun inner() { return x; } return 7; }
\* print outer(1, 2); print 3;
SrcReturns ==
    <<"fun", "outer", "(", "a", ",", "b", ")", "{", "\n",
      "var", "x", "=", "1", ";", "\n",
      "fun", "inner", "(", ")", "{", "return", "x", ";", "}", "\n",
      "return", "7", ";", "\n",
      "}", "\n",
      "print", "outer", "(", "1", ",", "2", ")", ";", "\n",
      "print", "3", ";", "\n">>

\* { var a = 1; var b = 2; fun f() { return b; } fun g() { return a; }
\*   fun h() { return a; } a = 3; }
\* print 4;
SrcCaptures ==
    <<"{", "var", "a", "=", "1", ";", "var", "b", "=", "2", ";", "\n",
      "fun", "f", "(", ")", "{", "return", "b", ";", "}", "\n",
      "fun", "g", "(", ")", "{", "return", "a", ";", "}", "\n",
      "fun", "h", "(", ")", "{", "return", "a", ";", "}", "\n",
      "a", "=", "3", ";", "}", "\n",
      "print", "4", ";", "\n">>

\* fun f() { { var a = 1; var b = 2; fun g() { return b; } } print 1; }
\* f();
SrcCapturesInFunction ==
    <<"fun", "f", "(", ")", "{", "\n",
      "{", "var", "a", "=", "1", ";", "var", "b", "=", "2", ";", "\n",
      "fun", "g", "(", ")", "{", "return", "b", ";", "}", "}", "\n",
      "print", "1", ";", "}", "\n",
      "f", "(", ")", ";", "\n">>

\* fun f() { { var a = 1; var b = 2; var c = 3; fun h() { return c; } }
\*           { var e = 4; fun k() { return e; } } }
\* f();
SrcStaleUpvalue ==
    <<"fun", "f", "(", ")", "{", "\n",
      "{", "var", "a", "=", "1", ";", "var", "b", "=", "2", ";", "var", "c", "=", "3", ";",
      "fun", "h", "(", ")", "{", "return", "c", ";", "}", "}", "\n",
      "{", "var", "e", "=", "4", ";",
      "fun", "k", "(", ")", "{", "return", "e", ";", "}", "}", "\n",
      "}", "\n",
      "f", "(", ")", ";", "\n">>

\* fun pick(a, b) { print a; print b; }   pick(1, 2);
SrcParams ==
    <<"fun", "pick", "(", "a", ",", "b", ")", "{", "print", "a", ";", "print", "b", ";", "}",
      "\n", "pick", "(", "1", ",", "2", ")", ";", "\n">>

\* class A {}  var a = A();  a.x = a;  a.y = "a" + "b";
\* then a string doubled until the collector has run, and print a.y;
SrcCycle ==
    <<"class", "A", "{", "}", "\n",
      "var", "a", "=", "A", "(", ")", ";", "\n",
      "a", ".", "x", "=", "a", ";", "\n",
      "a", ".", "y", "=", "\"a\"", "+", "\"b\"", ";", "\n",
      "var", "s", "=", "\"0123456789abcdef\"", ";", "\n",
      "var", "i", "=", "0", ";", "\n",
      "while", "(", "i", "<", "17", ")", "{", "\n",
      "s", "=", "s", "+", "s", ";", "\n",
      "i", "=", "i", "+", "1", ";", "\n",
      "}", "\n",
      "print", "a", ".", "y", ";", "\n">>

\* var p = "x..x" (Padding);  var s = "x..x" (Seed);
\* s doubled nine times, and print "a" + "b";
SrcThreshold ==
    <<"var", "p", "=", Quoted(Padding), ";", "\n",
      "var", "s", "=", Quoted(Seed), ";", "\n",
      "var", "i", "=", "0", ";", "\n",
      "while", "(", "i", "<", "9", ")", "{", "\n",
      "s", "=", "s", "+", "s", ";", "\n",
      "i", "=", "i", "+", "1", ";", "\n",
      "}", "\n",
      "print", "\"a\"", "+", "\"b\"", ";", "\n">>

\* class A {}  var a = A();  a.x = 1;  a = nil;
\* then a string doubled until the collector has run
SrcAccounting ==
    <<"class", "A", "{", "}", "\n",
      "var", "a", "=", "A", "(", ")", ";", "\n",
      "a", ".", "x", "=", "1", ";", "\n",
      "a", "=", "nil", ";", "\n",
      "var", "s", "=", "\"0123456789abcdef\"", ";", "\n",
      "var", "i", "=", "0", ";", "\n",
      "while", "(", "i", "<", "17", ")", "{", "\n",
      "s", "=", "s", "+", "s", ";", "\n",
      "i", "=", "i", "+", "1", ";", "\n",
      "}", "\n",
      "print", "i", ";", "\n">>

\* var g = 9;
\* fun outer() { var x = 1; var y = 2;
\*   fun middle() { var y = x;
\*     fun inner() { var z = 4;
\*       fun deep() { return x; }
\*       return z + x + y + x + g; } } }
SrcUpvalues ==
    <<"var", "g", "=", "9", ";", "\n",
      "fun", "outer", "(", ")", "{", "var", "x", "=", "1", ";", "var", "y", "=", "2", ";", "\n",
      "fun", "middle", "(", ")", "{", "var", "y", "=", "x", ";", "\n",
      "fun", "inner", "(", ")", "{", "var", "z", "=", "4", ";", "\n",
      "fun", "deep", "(", ")", "{", "return", "x", ";", "}", "\n",
      "return", "z", "+", "x", "+", "y", "+", "x", "+", "g", ";", "}", "}", "}", "\n">>

\* var n = 0;
\* { var keep = 7;
\*   while (n < 2) {            or  for (var i = 0; n < 2; i = i + 1) {
\*     var z = n; var a = n;
\*     fun f() { return a; }
\*     n = n + 1;
\*     var b = 1;
\*     break;                                     or continue
\*   }
\* }
\* print n;
\* with the block at the top level, or as the body of a function that is called
SrcLoopExit(loop, exit, called) ==
    <<"var", "n", "=", "0", ";", "\n">>
      \o (IF called THEN <<"fun", "run", "(", ")">> ELSE <<>>)
      \o <<"{", "var", "keep", "=", "7", ";", "\n">>
      \o (IF loop = "while"
          THEN <<"while", "(", "n", "<", "2", ")">>
          ELSE <<"for", "(", "var", "i", "=", "0", ";", "n", "<", "2", ";",
                 "i", "=", "i", "+", "1", ")">>)
      \o <<"{", "\n",
           "var", "z", "=", "n", ";", "\n",
           "var", "a", "=", "n", ";", "\n",
           "fun", "f", "(", ")", "{", "return", "a", ";", "}", "\n",
           "n", "=", "n", "+", "1", ";", "\n",
           "var", "b", "=", "1", ";", "\n",
           exit, ";", "\n",
           "}", "\n",
           "}", "\n">>
      \o (IF called THEN <<"run", "(", ")", ";", "\n">> ELSE <<>>)
      \o <<"print", "n", ";">>

LoopExit(loop, exit, called) ==
    [kind |-> "source", name |-> "loop_exit", text |-> SrcLoopExit(loop, exit, called),
     loop |-> loop, exit |-> exit, called |-> called]

\* break; print 1;     or     while (false) { fun f() { break; } }
SrcOutside(exit, nested) ==
    IF nested
    THEN <<"while", "(", "false", ")", "{", "fun", "f", "(", ")", "{", exit, ";", "}", "}">>
    ELSE <<exit, ";", "\n", "print", "1", ";">>

Outside(exit, nested) ==
    [kind |-> "source", name |-> "outside", text |-> SrcOutside(exit, nested),
     exit |-> exit, nested |-> nested]

LoopExits ==
    {LoopExit(loop, exit, called) :
       loop \in {"while", "for"}, exit \in {"break", "continue"}, called \in BOOLEAN}
      \cup {Outside(exit, nested) : exit \in {"break", "continue"}, nested \in BOOLEAN}

\* var 1 class 2 {} print 3;     or     var 1 return 2; print 3;
SrcErrSkip(keyword) ==
    <<"var", "1", keyword, "2">>
      \o (IF keyword = "class" THEN <<"{", "}">> ELSE <<";">>)
      \o <<"\n", "print", "3", ";">>

ErrSkip(keyword) ==
    [kind |-> "source", name |-> "err_skip", text |-> SrcErrSkip(keyword),
     keyword |-> keyword]

ErrSkips == {ErrSkip(keyword) : keyword \in {"class", "return"}}

\* var a = 1; var b = 2; a = b; var a = 3; fun f() { b = clock; return d; } print c;
SrcNumbering ==
    <<"var", "a", "=", "1", ";", "\n",
      "var", "b", "=", "2", ";", "\n",
      "a", "=", "b", ";", "\n",
      "var", "a", "=", "3", ";", "\n",
      "fun", "f", "(", ")", "{", "b", "=", "clock", ";", "return", "d", ";", "}", "\n",
      "print", "c", ";">>

\* var var x = 1; @ print 2; { print 3; {
SrcUnterminated ==
    <<"var", "var", "x", "=", "1", ";", "@", "print", "2", ";", "\n",
      "{", "print", "3", ";", "{">>

\* var a; var b; a = b = 1; print a; print b;
\* { var c; var d; c = d = 2; print c; print d; }
SrcAssign ==
    <<"var", "a", ";", "var", "b", ";", "\n",
      "a", "=", "b", "=", "1", ";", "print", "a", ";", "print", "b", ";", "\n",
      "{", "var", "c", ";", "var", "d", ";", "\n",
      "c", "=", "d", "=", "2", ";", "print", "c", ";", "print", "d", ";", "}", "\n">>

\* { var a = 1; var <declared> = <initializer>; print <declared>; print a; } with
\* the second declaration in the block of the first or in a block of its own
SrcScoping(nested, declared, initializer) ==
    <<"{", "var", "a", "=", "1", ";">>
      \o (IF nested THEN <<"{">> ELSE <<>>)
      \o <<"var", declared, "=", initializer, ";", "print", declared, ";", "print", "a", ";">>
      \o (IF nested THEN <<"}", "print", "a", ";">> ELSE <<>>)
      \o <<"}">>

Scoping(nested, declared, initializer) ==
    [kind |-> "source", name |-> "scoping",
     text |-> SrcScoping(nested, declared, initializer),
     nested |-> nested, declared |-> declared, initializer |-> initializer]

Scopings ==
    {Scoping(nested, declared, initializer) :
       nested \in BOOLEAN, declared \in {"a", "b"}, initializer \in {"2", "a", "b"}}

\* var x = 0; print <left> and (x = 5); print x;    or the same with `or`
SrcLogic(operator, left) ==
    <<"var", "x", "=", "0", ";", "\n",
      "print", left, operator, "(", "x", "=", "5", ")", ";", "\n",
      "print", "x", ";", "\n">>

Logic(operator, left) ==
    [kind |-> "source", name |-> "logic", text |-> SrcLogic(operator, left),
     operator |-> operator, left |-> left]

Logics == {Logic(operator, left) : operator \in {"and", "or"},
                                   left \in {"true", "false", "1", "nil"}}

\* var g = 0;
\* fun c() { print "c"; return g < 2; }   fun u() { print "u"; g = g + 1; return g; }
\* for (var i = 0; c(); i = u()) { print "b"; if (i == 0) continue; print "B"; }
\* print "end";
\* with the update in its clause or as a statement of the body (the continue
\* then follows it, if (i == 1)), and with or without the continue
SrcFor(clause, continues) ==
    <<"var", "g", "=", "0", ";", "\n",
      "fun", "c", "(", ")", "{", "print", "\"c\"", ";",
         "return", "g", "<", "2", ";", "}", "\n",
      "fun", "u", "(", ")", "{", "print", "\"u\"", ";",
         "g", "=", "g", "+", "1", ";", "return", "g", ";", "}", "\n",
      "for", "(", "var", "i", "=", "0", ";", "c", "(", ")", ";">>
      \o (IF clause THEN <<"i", "=", "u", "(", ")">> ELSE <<>>)
      \o <<")", "{", "\n", "print", "\"b\"", ";", "\n">>
      \o (IF clause THEN <<>> ELSE <<"i", "=", "u", "(", ")", ";", "\n">>)
      \o (IF continues
          THEN <<"if", "(", "i", "==", IF clause THEN "0" ELSE "1", ")", "continue", ";", "\n">>
          ELSE <<>>)
      \o <<"print", "\"B\"", ";", "\n", "}", "\n", "print", "\"end\"", ";", "\n">>

For(clause, continues) ==
    [kind |-> "source", name |-> "for", text |-> SrcFor(clause, continues),
     clause |-> clause, continues |-> continues]

Fors == {For(clause, continues) : clause \in BOOLEAN, continues \in BOOLEAN}

Sources ==
    {Source("arith", SrcArith), Source("globals", SrcGlobals),
     Source("undefined", SrcUndefined), Source("recursion", SrcRecursion),
     Source("recursion_args", SrcRecursionArgs),
     Source("trace", SrcTrace), Source("arity", SrcArity), Source("native", SrcNative),
     Source("not_callable", SrcNotCallable), Source("class", SrcClass),
     Source("closure", SrcClosure), Source("doubling", SrcDoubling),
     Source("doubling_closure", SrcDoublingClosure), Source("control", SrcControl),
     Source("err_two", SrcErrTwo), Source("err_token", SrcErrToken),
     Source("err_function", SrcErrFunction), Source("err_first", SrcErrFirst),
     Source("empty", SrcEmpty), Source("long_constant", SrcLongConstant),
     Source("long_function", SrcLongFunction), Source("long_class", SrcLongClass),
     Source("assign", SrcAssign), Source("returns", SrcReturns),
     Source("captures", SrcCaptures),
     Source("captures_in_function", SrcCapturesInFunction),
     Source("stale_upvalue", SrcStaleUpvalue), Source("params", SrcParams),
     Source("cycle", SrcCycle),
     Source("threshold", SrcThreshold),
     Source("accounting", SrcAccounting),
     Source("upvalues", SrcUpvalues),
     Source("numbering", SrcNumbering),
     Source("unterminated", SrcUnterminated)}
      \cup Scopings \cup Logics \cup Fors \cup MethodPrograms \cup LoopExits \cup ErrSkips

-----------------------------------------------------------------------------
(* tests/common/mod.rs: the host.  interpret() allocates the native        *)
(* functions, declares them as globals, compiles the source and, when      *)
(* compile returns a function, builds the VM around it and runs it.        *)

\* native.rs: get_native_funcs
get_native_funcs == <<[name |-> "clock", name_cap |-> 5, arity |-> 0]>>

\* interpret, up to Compiler::new: <<compiler, globals>>
HostCompiler(source) ==
    LET a == alloc(GC_new, "natives", get_native_funcs[1])
        names == sym_add(<<>>, get_native_funcs[1].name)[1]
    IN <<Compiler_new(Scanner(source), "<main>", a[1], StringInternTable_new, names, <<>>),
         <<Some(Obj("NativeFunc", a[2]))>>>>

\* VM::new around a main function; the frame holds a closure, which the
\* host makes of the function
VM_new(main_function, g, tbl, names, globs, out, errs, prof) ==
    LET f == alloc(g, "functions", main_function)
        c == alloc(f[1], "closures", Closure_new(f[2], 0))
    IN [call_stack |-> <<CallFrame(c[2], 0, 0)>>,
        current_frame |-> CallFrame(c[2], 0, 0),
        stack |-> <<>>,
        stale |-> <<>>,
        open_upvalues |-> <<>>,
        gc |-> c[1],
        str_intern_table |-> tbl,
        globals |-> globs,
        global_var_names |-> names,
        output_stream |-> out,
        err_stream |-> errs,
        status |-> "running",
        ub |-> FALSE,
        gc_fault |-> FALSE,
        collections |-> 0,
        profile |-> prof,
        ret |-> 0]

\* the VM object of the current state
VM ==
    [call_stack |-> call_stack, current_frame |-> current_frame, stack |-> stack,
     stale |-> stale, open_upvalues |-> open_upvalues, gc |-> gc,
     str_intern_table |-> str_intern_table, globals |-> globals,
     global_var_names |-> global_var_names, output_stream |-> output_stream,
     err_stream |-> err_stream, status |-> status, ub |-> ub, gc_fault |-> gc_fault,
     collections |-> collections, profile |-> profile, ret |-> 0]

\* the VM object r becomes the current state
SetVM(r) ==
    /\ call_stack' = r.call_stack
    /\ current_frame' = r.current_frame
    /\ stack' = r.stack
    /\ stale' = r.stale
    /\ open_upvalues' = r.open_upvalues
    /\ gc' = r.gc
    /\ str_intern_table' = r.str_intern_table
    /\ globals' = r.globals
    /\ global_var_names' = r.global_var_names
    /\ output_stream' = r.output_stream
    /\ err_stream' = r.err_stream
    /\ status' = r.status
    /\ ub' = r.ub
    /\ gc_fault' = r.gc_fault
    /\ collections' = r.collections

Profiles == {"debug", "release"}

\* the state after Compiler::new
InitSource(source) ==
    LET h == HostCompiler(source.text)
    IN /\ prog = source
       /\ phase = "compile_begin"
       /\ comp = h[1]
       /\ call_stack = <<>>
       /\ current_frame = CallFrame(0, 0, 0)
       /\ stack = <<>>
       /\ stale = <<>>
       /\ open_upvalues = <<>>
       /\ gc = h[1].gc
       /\ str_intern_table = h[1].str_intern_table
       /\ globals = h[2]
       /\ global_var_names = h[1].sym_table
       /\ output_stream = <<>>
       /\ err_stream = <<>>
       /\ status = "compiling"
       /\ ub = FALSE
       /\ gc_fault = FALSE
       /\ collections = 0
       /\ last_op = "None"

\* the compiler works on the collector, the intern table, the symbol table
\* and the error stream it borrows from the host
SetCompiler(c) ==
    /\ comp' = c
    /\ gc' = c.gc
    /\ str_intern_table' = c.str_intern_table
    /\ global_var_names' = c.sym_table
    /\ err_stream' = c.err_stream

CompileBegin ==
    /\ phase = "compile_begin"
    /\ SetCompiler(compile_begin(comp))
    /\ phase' = "compile"
    /\ UNCHANGED <<profile, prog, call_stack, current_frame, stack, stale, open_upvalues,
                   globals, output_stream, status, ub, gc_fault, collections, last_op>>

CompileDeclaration ==
    /\ phase = "compile"
    /\ ~check(comp, "Eof")
    /\ SetCompiler(compile_declaration(comp))
    /\ UNCHANGED <<phase, profile, prog, call_stack, current_frame, stack, stale,
                   open_upvalues, globals, output_stream, status, ub, gc_fault,
                   collections, last_op>>

\* finish(), and the rest of interpret(): a None for every global the
\* compiler declared, and VM::new if compile returned a function
CompileFinish ==
    /\ phase = "compile"
    /\ check(comp, "Eof")
    /\ LET c == finish(comp)
           globs == globals \o [i \in 1..(Len(c.sym_table) - Len(globals)) |-> None]
       IN /\ comp' = c
          /\ IF finish_returns_some(c)
             THEN /\ SetVM(VM_new(c.function, c.gc, c.str_intern_table, c.sym_table,
                                  globs, output_stream, c.err_stream, profile))
                  /\ phase' = "run"
             ELSE /\ phase' = "done"
                  /\ status' = "compile_error"
                  /\ gc' = c.gc
                  /\ str_intern_table' = c.str_intern_table
                  /\ global_var_names' = c.sym_table
                  /\ err_stream' = c.err_stream
                  /\ globals' = globs
                  /\ UNCHANGED <<call_stack, current_frame, stack, stale, open_upvalues,
                                 output_stream, ub, gc_fault, collections>>
    /\ UNCHANGED <<profile, prog, last_op>>

-----------------------------------------------------------------------------
(* vm.rs: run().  One action per arm (or family of arms) of its match:     *)
(* read_opcode, the handler, and the return out of run() if it ends it.    *)

\* read_opcode: the instruction at ip
Fetch == OpFromByte(ByteAt(VM, ip(VM)))

Dispatch(ops) == phase = "run" /\ status = "running" /\ Fetch \in ops

\* the VM after read_opcode
Decoded == Advance(VM, 1)

Long == Fetch \in {"ConstantLong", "DefineGlobalLong", "GetGlobalLong", "SetGlobalLong",
                   "GetLocalLong", "SetLocalLong", "PopNLong"}

Step(r) ==
    /\ SetVM(r)
    /\ phase' = IF Running(r) THEN "run" ELSE "done"
    /\ last_op' = Fetch
    /\ UNCHANGED <<profile, prog, comp>>

Constant == Dispatch({"Constant", "ConstantLong"}) /\ Step(op_Constant(Decoded, Long))

Literal ==
    /\ Dispatch({"Nil", "True", "False"})
    /\ Step(push(Decoded, CASE Fetch = "Nil" -> Nil
                            [] Fetch = "True" -> Bool(TRUE)
                            [] Fetch = "False" -> Bool(FALSE)))

Return == Dispatch({"Return"}) /\ Step(op_Return(Decoded))

Negate == Dispatch({"Negate"}) /\ Step(op_Negate(Decoded))

Not == Dispatch({"Not"}) /\ Step(op_Not(Decoded))

Add == Dispatch({"Add"}) /\ \E o \in Oracles : Step(binary_add(Decoded, o))

Sub == Dispatch({"Sub"}) /\ Step(op_Sub(Decoded))

Mult == Dispatch({"Mult"}) /\ Step(op_Mult(Decoded))

Divide == Dispatch({"Divide"}) /\ Step(binary_divide(Decoded))

Equal == Dispatch({"Equal", "NotEqual"}) /\ Step(op_Equal(Decoded, Fetch = "NotEqual"))

Comparison ==
    /\ Dispatch({"Greater", "GreaterEqual", "Less", "LessEqual"})
    /\ Step(CASE Fetch = "Greater" -> op_Greater(Decoded)
              [] Fetch = "GreaterEqual" -> op_GreaterEqual(Decoded)
              [] Fetch = "Less" -> op_Less(Decoded)
              [] Fetch = "LessEqual" -> op_LessEqual(Decoded))

Ternary == Dispatch({"Ternary"}) /\ Step(op_Ternary(Decoded))

PrintOp == Dispatch({"Print"}) /\ \E o \in Oracles : Step(op_Print(Decoded, o))

Pop == Dispatch({"Pop"}) /\ Step(op_Pop(Decoded))

PopN == Dispatch({"PopN", "PopNLong"}) /\ Step(op_PopN(Decoded, Long))

DefineGlobal ==
    Dispatch({"DefineGlobal", "DefineGlobalLong"}) /\ Step(op_DefineGlobal(Decoded, Long))

GetGlobal == Dispatch({"GetGlobal", "GetGlobalLong"}) /\ Step(op_GetGlobal(Decoded, Long))

SetGlobal == Dispatch({"SetGlobal", "SetGlobalLong"}) /\ Step(op_SetGlobal(Decoded, Long))

GetLocal == Dispatch({"GetLocal", "GetLocalLong"}) /\ Step(op_GetLocal(Decoded, Long))

SetLocal == Dispatch({"SetLocal", "SetLocalLong"}) /\ Step(op_SetLocal(Decoded, Long))

JumpIf ==
    Dispatch({"JumpIfFalse", "JumpIfTrue"}) /\ Step(op_JumpIf(Decoded, Fetch = "JumpIfTrue"))

Jump == Dispatch({"Jump"}) /\ Step(op_Jump(Decoded))

Loop == Dispatch({"Loop"}) /\ Step(op_Loop(Decoded))

Call == Dispatch({"Call"}) /\ \E o \in Oracles : Step(op_Call(Decoded, o))

Closure == Dispatch({"Closure"}) /\ \E o \in Oracles : Step(op_Closure(Decoded, o))

Unimplemented ==
    Dispatch({"ClosureLong", "GetUpvalueLong", "SetUpvalueLong"})
      /\ Step(op_Unimplemented(Decoded))

GetUpvalue == Dispatch({"GetUpvalue"}) /\ \E o \in Oracles : Step(op_GetUpvalue(Decoded, o))

SetUpvalue == Dispatch({"SetUpvalue"}) /\ \E o \in Oracles : Step(op_SetUpvalue(Decoded, o))

CloseUpvalue == Dispatch({"CloseUpvalue"}) /\ Step(op_CloseUpvalue(Decoded))

Class == Dispatch({"Class"}) /\ \E o \in Oracles : Step(op_Class(Decoded, o))

GetProperty == Dispatch({"GetProperty"}) /\ \E o \in Oracles : Step(op_GetProperty(Decoded, o))

SetProperty == Dispatch({"SetProperty"}) /\ Step(op_SetProperty(Decoded))

Inherit == Dispatch({"Inherit"}) /\ \E o \in Oracles : Step(op_Inherit(Decoded, o))

Method == Dispatch({"Method"}) /\ Step(define_method(Decoded))

Invoke == Dispatch({"Invoke"}) /\ \E o \in Oracles : Step(invoke_method(Decoded, o))

-----------------------------------------------------------------------------
(* A host that builds the main function itself, through the chunk, GC and  *)
(* intern-table interfaces (as the disassembler's test builds its chunk),  *)
(* and hands it to VM::new.  Classes with methods reach the VM only this   *)
(* way: the compiler accepts empty class bodies only.                      *)

Bytecode(name, text) == [kind |-> "bytecode", name |-> name, text |-> text]

Op(op) == [k |-> "op", op |-> op]

OpByteOperand(op, n) == [k |-> "byte", op |-> op, n |-> n]

OpLongOperand(op, n) == [k |-> "long", op |-> op, n |-> n]

OpNumber(op, n) == [k |-> "number", op |-> op, n |-> n]

OpString(op, s) == [k |-> "string", op |-> op, s |-> s]

OpStringByte(op, s, n) == [k |-> "string_byte", op |-> op, s |-> s, n |-> n]

OpFunction(name, arity, body) ==
    [k |-> "function", name |-> name, arity |-> arity, body |-> body]

Line(n) == [k |-> "line", n |-> n]

\* write_opcode, write_byte, write_as_24bit_int, add_constant, intern_slice
\* and alloc_function, one item at a time
RECURSIVE Assemble(_, _, _)
Assemble(c, items, i) ==
    LET interned(r, item) ==
            emit_opcode_with_constant([c EXCEPT !.str_intern_table = r.tbl, !.gc = r.gc],
                                      item.op, Obj("String", r.ptr))
        allocated(c5, a) ==
            emit_opcode_with_constant([c5 EXCEPT !.gc = a[1]], "Closure",
                                      Obj("Function", a[2]))
        assembled(c4, item) ==
            allocated(pop_context(c4),
                      alloc(c4.gc, "functions", [c4.function EXCEPT !.arity = item.arity]))
        write(item) ==
            CASE item.k = "line" -> [c EXCEPT !.prev_token.line = item.n]
              [] item.k = "op" -> emit_opcode(c, item.op)
              [] item.k = "byte" -> emit_byte(emit_opcode(c, item.op), item.n)
              [] item.k = "long" ->
                   [emit_opcode(c, item.op) EXCEPT
                      !.function.chunk = write_as_24bit_int(@, item.n, c.prev_token.line)]
              [] item.k = "number" -> emit_opcode_with_constant(c, item.op, Number(item.n))
              [] item.k = "string" ->
                   interned(intern_slice(c.str_intern_table, c.gc, item.s), item)
              [] item.k = "string_byte" ->
                   emit_byte(interned(intern_slice(c.str_intern_table, c.gc, item.s), item),
                             item.n)
              [] item.k = "function" ->
                   assembled(Assemble(push_context(c, item.name), item.body, 1), item)
    IN IF i > Len(items) THEN c
       ELSE CHOOSE done \in {Assemble(written, items, i + 1) : written \in {write(items[i])}} :
               TRUE

\* the largest argument count of the assembled calls
MaxArgs == 2

Arguments(n) == [i \in 1..n |-> OpNumber("Constant", 7)]

\* class A { init(a) { return this; } }  print A(<n arguments>);
AsmClassCall(n) ==
    <<Line(1), OpString("Class", "A"),
      OpFunction("init", 1, <<OpByteOperand("GetLocal", 0), Op("Return")>>),
      OpString("Method", "init"),
      Line(2), OpByteOperand("GetLocal", 0)>>
      \o Arguments(n)
      \o <<OpByteOperand("Call", n), Op("Print"), OpByteOperand("PopN", 1)>>

\* class A { m(x) { return x; } }  print A().m(<n arguments>);
AsmBoundCall(n) ==
    <<Line(1), OpString("Class", "A"),
      OpFunction("m", 1, <<OpByteOperand("GetLocal", 1), Op("Return")>>),
      OpString("Method", "m"),
      Line(2), OpByteOperand("GetLocal", 0), OpByteOperand("Call", 0),
      Line(3), OpString("GetProperty", "m")>>
      \o Arguments(n)
      \o <<OpByteOperand("Call", n), Op("Print"), OpByteOperand("PopN", 1)>>

\* the long forms, and the instructions whose handlers are empty
AsmLong ==
    <<Line(1), OpNumber("Constant", 5), OpLongOperand("ConstantLong", 0),
      Op("ClosureLong"), Op("GetUpvalueLong"), Op("SetUpvalueLong"),
      OpLongOperand("GetLocalLong", 1), Op("Print"),
      OpLongOperand("PopNLong", 2)>>

\* class A { m() { return this.tag; } }  var a = A(); var b = A();
\* a.tag = 8; b.tag = 9; a.m = 5; print a.m; print b.m();
\* and then b.x, or a property of a number read or written
AsmProperty(last) ==
    <<Line(1), OpString("Class", "A"),
      OpFunction("m", 0, <<OpByteOperand("GetLocal", 0), OpString("GetProperty", "tag"),
                           Op("Return")>>),
      OpString("Method", "m"),
      Line(2), OpByteOperand("GetLocal", 0), OpByteOperand("Call", 0),
      Line(3), OpByteOperand("GetLocal", 0), OpByteOperand("Call", 0),
      Line(4), OpByteOperand("GetLocal", 1), OpNumber("Constant", 8),
               OpString("SetProperty", "tag"), Op("Pop"),
      Line(5), OpByteOperand("GetLocal", 2), OpNumber("Constant", 9),
               OpString("SetProperty", "tag"), Op("Pop"),
      Line(6), OpByteOperand("GetLocal", 1), OpNumber("Constant", 5),
               OpString("SetProperty", "m"), Op("Pop"),
      Line(7), OpByteOperand("GetLocal", 1), OpString("GetProperty", "m"), Op("Print"),
      Line(8), OpByteOperand("GetLocal", 2), OpString("GetProperty", "m"),
               OpByteOperand("Call", 0), Op("Print"),
      Line(9)>>
      \o CASE last = "other_instance" ->
                <<OpByteOperand("GetLocal", 1), OpNumber("Constant", 3),
                  OpString("SetProperty", "x"), Op("Print"),
                  OpByteOperand("GetLocal", 2), OpString("GetProperty", "x"), Op("Print")>>
           [] last = "number_get" ->
                <<OpNumber("Constant", 7), OpString("GetProperty", "m"), Op("Print")>>
           [] last = "number_set" ->
                <<OpNumber("Constant", 7), OpNumber("Constant", 3),
                  OpString("SetProperty", "m"), Op("Print")>>

\* class A { m() { return 1; } k() { return 2; } }  class B < A { m() { return 3; } }
\* then A gets n() { return 4; };  var b = B(); var a = A();
\* print b.k(); print b.m(); print a.m(); b.n;
\* or a class that inherits from a number
AsmInherit(last) ==
    <<Line(1), OpString("Class", "A"),
      OpFunction("m", 0, <<OpNumber("Constant", 1), Op("Return")>>), OpString("Method", "m"),
      OpFunction("k", 0, <<OpNumber("Constant", 2), Op("Return")>>), OpString("Method", "k"),
      Line(2), OpString("Class", "B")>>
      \o CASE last = "methods" ->
                <<OpByteOperand("GetLocal", 0), OpByteOperand("GetLocal", 1), Op("Inherit"),
                  Op("Pop"),
                  OpFunction("m", 0, <<OpNumber("Constant", 3), Op("Return")>>),
                  OpString("Method", "m"),
                  Line(3), OpByteOperand("GetLocal", 0),
                  OpFunction("n", 0, <<OpNumber("Constant", 4), Op("Return")>>),
                  OpString("Method", "n"), Op("Pop"),
                  Line(4), OpByteOperand("GetLocal", 1), OpByteOperand("Call", 0),
                  Line(5), OpByteOperand("GetLocal", 0), OpByteOperand("Call", 0),
                  Line(6), OpByteOperand("GetLocal", 2), OpString("GetProperty", "k"),
                           OpByteOperand("Call", 0), Op("Print"),
                  Line(7), OpByteOperand("GetLocal", 2), OpString("GetProperty", "m"),
                           OpByteOperand("Call", 0), Op("Print"),
                  Line(8), OpByteOperand("GetLocal", 3), OpString("GetProperty", "m"),
                           OpByteOperand("Call", 0), Op("Print"),
                  Line(9), OpByteOperand("GetLocal", 2), OpString("GetProperty", "n"),
                           Op("Print")>>
           [] last = "number" ->
                <<OpNumber("Constant", 7), OpByteOperand("GetLocal", 1), Op("Inherit"),
                  Op("Print")>>

\* class A { m(x) { return x; } }  var a = A();
\* fun k(x) { return x; }  a.f = k;  a.v = 5;
\* print a.m(<n arguments>), or a.f(..), a.v(..), a.z(..), or 7.m(..),
\* the call compiled to Invoke
InvokeCases == {"m", "f", "v", "z", "number"}

AsmInvoke(what, n) ==
    <<Line(1), OpString("Class", "A"),
      OpFunction("m", 1, <<OpByteOperand("GetLocal", 1), Op("Return")>>),
      OpString("Method", "m"),
      Line(2), OpByteOperand("GetLocal", 0), OpByteOperand("Call", 0),
      Line(3), OpByteOperand("GetLocal", 1),
               OpFunction("k", 1, <<OpByteOperand("GetLocal", 1), Op("Return")>>),
               OpString("SetProperty", "f"), Op("Pop"),
      Line(4), OpByteOperand("GetLocal", 1), OpNumber("Constant", 5),
               OpString("SetProperty", "v"), Op("Pop"),
      Line(5), IF what = "number" THEN OpNumber("Constant", 7)
               ELSE OpByteOperand("GetLocal", 1)>>
      \o Arguments(n)
      \o <<OpStringByte("Invoke", IF what = "number" THEN "m" ELSE what, n),
           Op("Print"), OpByteOperand("PopN", 2)>>

InvokeTest(what, n) ==
    [kind |-> "bytecode", name |-> "invoke", text |-> AsmInvoke(what, n),
     what |-> what, n |-> n]

Bytecodes ==
    {Bytecode("class_call", AsmClassCall(n)) : n \in 0..MaxArgs}
      \cup {Bytecode("bound_call", AsmBoundCall(n)) : n \in 0..MaxArgs}
      \cup {Bytecode("long", AsmLong)}
      \cup {Bytecode("property", AsmProperty(last)) :
               last \in {"other_instance", "number_get", "number_set"}}
      \cup {Bytecode("inherit", AsmInherit(last)) : last \in {"methods", "number"}}
      \cup {InvokeTest(what, n) : what \in InvokeCases, n \in 0..MaxArgs}

\* the VM object r is the initial state
InitVM(r) ==
    /\ call_stack = r.call_stack
    /\ current_frame = r.current_frame
    /\ stack = r.stack
    /\ stale = r.stale
    /\ open_upvalues = r.open_upvalues
    /\ gc = r.gc
    /\ str_intern_table = r.str_intern_table
    /\ globals = r.globals
    /\ global_var_names = r.global_var_names
    /\ output_stream = r.output_stream
    /\ err_stream = r.err_stream
    /\ status = r.status
    /\ ub = r.ub
    /\ gc_fault = r.gc_fault
    /\ collections = r.collections

\* the state after VM::new on an assembled main function
InitBytecode(p) ==
    LET h == HostCompiler(<<>>)
        c == finish(Assemble(h[1], p.text, 1))
    IN /\ prog = p
       /\ phase = "run"
       /\ comp = c
       /\ InitVM(VM_new(c.function, c.gc, c.str_intern_table, c.sym_table, h[2],
                         <<>>, <<>>, profile))
       /\ last_op = "None"

-----------------------------------------------------------------------------
(* table.rs, test_str_intern_table: a host that owns a collector and a     *)
(* table, interns through the table and keeps the handles it got (in       *)
(* `stack`); its collection cycle is the one of collect_garbage with the   *)
(* handles it keeps as the roots.                                          *)

TableTest(name) == [kind |-> "table", name |-> name, text |-> <<>>]

Contents == {"hello", "world"}

\* the handles the host keeps at a time
MaxHeld == 2

\* the strings the host allocates in all
MaxInterned == 3

InitTable ==
    /\ prog = TableTest("intern")
    /\ phase = "intern"
    /\ comp = HostCompiler(<<>>)[1]
    /\ call_stack = <<>>
    /\ current_frame = CallFrame(0, 0, 0)
    /\ stack = <<>>
    /\ stale = <<>>
    /\ open_upvalues = <<>>
    /\ gc = GC_new
    /\ str_intern_table = StringInternTable_new
    /\ globals = <<>>
    /\ global_var_names = <<>>
    /\ output_stream = <<>>
    /\ err_stream = <<>>
    /\ status = "running"
    /\ ub = FALSE
    /\ gc_fault = FALSE
    /\ collections = 0
    /\ last_op = "None"

\* the host keeps the handle an intern call returned
Interned(i, op) ==
    /\ i.gc.next_handle <= MaxInterned + 1
    /\ str_intern_table' = i.tbl
    /\ gc' = i.gc
    /\ stack' = Append(stack, Obj("String", i.ptr))
    /\ last_op' = op
    /\ UNCHANGED <<phase, profile, prog, comp, call_stack, current_frame, stale,
                   open_upvalues, globals, global_var_names, output_stream, err_stream,
                   status, ub, gc_fault, collections>>

InternSlice ==
    /\ phase = "intern"
    /\ Len(stack) < MaxHeld
    /\ \E s \in Contents : Interned(intern_slice(str_intern_table, gc, s), "intern_slice")

\* the String passed may have spare capacity
InternOwned ==
    /\ phase = "intern"
    /\ Len(stack) < MaxHeld
    /\ \E s \in Contents, spare \in 0..1 :
          Interned(intern_owned(str_intern_table, gc, s, Len(s) + spare), "intern_owned")

\* the host forgets one of its handles
Forget ==
    /\ phase = "intern"
    /\ \E i \in 1..Len(stack) :
          stack' = SubSeq(stack, 1, i - 1) \o SubSeq(stack, i + 1, Len(stack))
    /\ last_op' = "forget"
    /\ UNCHANGED <<phase, profile, prog, comp, call_stack, current_frame, stale,
                   open_upvalues, gc, str_intern_table, globals, global_var_names,
                   output_stream, err_stream, status, ub, gc_fault, collections>>

\* clear_marks, mark_value on every handle kept, trace_references,
\* clear_unmarked, sweep
Cycle ==
    /\ phase = "intern"
    /\ SetVM(collect_garbage(VM, [ub |-> "abort", junk |-> Nil]))
    /\ last_op' = "collect"
    /\ UNCHANGED <<phase, profile, prog, comp>>

\* the test returns
TableDone ==
    /\ phase = "intern"
    /\ phase' = "done"
    /\ status' = "ok"
    /\ last_op' = "return"
    /\ UNCHANGED <<profile, prog, comp, call_stack, current_frame, stack, stale,
                   open_upvalues, gc, str_intern_table, globals, global_var_names,
                   output_stream, err_stream, ub, gc_fault, collections>>

-----------------------------------------------------------------------------
(* A host that drives emit_jump, patch_jump and emit_loop over a body of   *)
(* any length: the statement a parser would compile to a jump over `pad`   *)
(* bytes, written through the compiler's own emitters, finished by         *)
(* finish() and run.                                                       *)

JumpTest(opcode, pad) == [kind |-> "jump", name |-> opcode, text |-> <<>>, pad |-> pad]

\* body lengths on both sides of the one-byte and of the 16-bit limit, of a
\* forward jump (distance pad) and of a loop (distance pad + 5)
JumpPads == {0, U8_MAX - 4, U8_MAX + 1, U16_MAX - 5, U16_MAX - 4, U16_MAX, U16_MAX + 1}

JumpTests == {JumpTest(opcode, pad) :
                opcode \in {"Jump", "JumpIfFalse", "JumpIfTrue", "Loop"}, pad \in JumpPads}

\* the operand the host has to patch, and the start of its loop
HeadOffset(opcode) == IF opcode \in {"Jump", "Loop"} THEN 1 ELSE 2

LoopStart(opcode) == HeadOffset(opcode) + 2

\* the condition and the jump over the body; ahead of a loop, a jump to its
\* end and the `return nil` the loop goes back to
jump_head(c, opcode) ==
    CASE opcode = "Jump" -> emit_jump(c, "Jump")
      [] opcode = "JumpIfFalse" -> emit_jump(emit_opcode(c, "False"), opcode)
      [] opcode = "JumpIfTrue" -> emit_jump(emit_opcode(c, "True"), opcode)
      [] opcode = "Loop" -> emit_opcode(emit_opcode(emit_jump(c, "Jump"), "Nil"), "Return")

jump_body(c, pad) ==
    [c EXCEPT !.function.chunk = write_bytes(@, OpByte("Nil"), c.prev_token.line, pad)]

\* the end of the statement, and what compile() does with its error
jump_tail(c, opcode) ==
    LET declared(d) == IF Failed(d) THEN synchronize(report_err(d)) ELSE d
        patched == patch_jump(c, HeadOffset(opcode))
    IN declared(IF opcode = "Loop" THEN emit_loop(patched, LoopStart(opcode)) ELSE patched)

\* the state after Compiler::new and the first advance of compile()
InitJump(p) ==
    LET h == HostCompiler(p.text)
        c == compile_begin(h[1])
    IN /\ prog = p
       /\ phase = IF p.kind = "jump" THEN "jump_head" ELSE "index_emit"
       /\ comp = c
       /\ call_stack = <<>>
       /\ current_frame = CallFrame(0, 0, 0)
       /\ stack = <<>>
       /\ stale = <<>>
       /\ open_upvalues = <<>>
       /\ gc = c.gc
       /\ str_intern_table = c.str_intern_table
       /\ globals = h[2]
       /\ global_var_names = c.sym_table
       /\ output_stream = <<>>
       /\ err_stream = c.err_stream
       /\ status = "compiling"
       /\ ub = FALSE
       /\ gc_fault = FALSE
       /\ collections = 0
       /\ last_op = "None"

JumpTestStep(from, c, to) ==
    /\ phase = from
    /\ SetCompiler(c)
    /\ phase' = to
    /\ UNCHANGED <<profile, prog, call_stack, current_frame, stack, stale, open_upvalues,
                   globals, output_stream, status, ub, gc_fault, collections, last_op>>

JumpHead == JumpTestStep("jump_head", jump_head(comp, prog.name), "jump_body")

JumpBody == JumpTestStep("jump_body", jump_body(comp, prog.pad), "jump_tail")

JumpTail == JumpTestStep("jump_tail", jump_tail(comp, prog.name), "compile")

-----------------------------------------------------------------------------
(* A host that gives emit_opcode_with_num an index of any size: the        *)
(* GetGlobal that variable() writes for the global of that index.          *)

IndexTest(index) == [kind |-> "index", name |-> "GetGlobal", text |-> <<>>, index |-> index]

\* indices on both sides of the one-byte and of the 24-bit limit
Indices == {0, U8_MAX, U8_MAX + 1, U8_MAX + 2, U16_MAX + 1, MAX24BIT, MAX24BIT + 1}

IndexTests == {IndexTest(index) : index \in Indices}

index_emit(c, index) ==
    LET declared(d) == IF Failed(d) THEN synchronize(report_err(d)) ELSE d
    IN declared(emit_opcode_with_num(c, "GetGlobal", "GetGlobalLong", index,
                                     "Too many globals in the program"))

IndexEmit == JumpTestStep("index_emit", index_emit(comp, prog.index), "compile")

-----------------------------------------------------------------------------
(* A host that builds a chunk with write_byte, on any line; the lines it   *)
(* passed are kept in the field marks of the function, which is history.   *)

ChunkTest == [kind |-> "chunk", name |-> "write_byte", text |-> <<>>]

\* the bytes the host writes at most
MaxBytes == 4

\* the lines it passes
MaxLine == 3

InitChunk ==
    /\ prog = ChunkTest
    /\ phase = "chunk"
    /\ comp = HostCompiler(<<>>)[1]
    /\ call_stack = <<>>
    /\ current_frame = CallFrame(0, 0, 0)
    /\ stack = <<>>
    /\ stale = <<>>
    /\ open_upvalues = <<>>
    /\ gc = GC_new
    /\ str_intern_table = StringInternTable_new
    /\ globals = <<>>
    /\ global_var_names = <<>>
    /\ output_stream = <<>>
    /\ err_stream = <<>>
    /\ status = "running"
    /\ ub = FALSE
    /\ gc_fault = FALSE
    /\ collections = 0
    /\ last_op = "None"

WriteByte ==
    /\ phase = "chunk"
    /\ Len(comp.function.chunk.code) < MaxBytes
    /\ \E line \in 1..MaxLine :
          comp' = [comp EXCEPT !.function.chunk = write_byte(@, OpByte("Nil"), line),
                               !.function.marks = Append(@, line)]
    /\ last_op' = "write_byte"
    /\ UNCHANGED <<phase, profile, prog, call_stack, current_frame, stack, stale,
                   open_upvalues, gc, str_intern_table, globals, global_var_names,
                   output_stream, err_stream, status, ub, gc_fault, collections>>

ChunkDone ==
    /\ phase = "chunk"
    /\ phase' = "done"
    /\ status' = "ok"
    /\ last_op' = "return"
    /\ UNCHANGED <<profile, prog, comp, call_stack, current_frame, stack, stale,
                   open_upvalues, gc, str_intern_table, globals, global_var_names,
                   output_stream, err_stream, ub, gc_fault, collections>>

Init ==
    /\ profile \in Profiles
    /\ \/ \E source \in Sources : InitSource(source)
       \/ \E p \in Bytecodes : InitBytecode(p)
       \/ InitTable
       \/ \E p \in JumpTests \cup IndexTests : InitJump(p)
       \/ InitChunk

Next ==
    \/ CompileBegin \/ CompileDeclaration \/ CompileFinish
    \/ Constant \/ Literal \/ Return \/ Negate \/ Not \/ Add \/ Sub \/ Mult \/ Divide
    \/ Equal \/ Comparison \/ Ternary \/ PrintOp \/ Pop \/ PopN
    \/ DefineGlobal \/ GetGlobal \/ SetGlobal \/ GetLocal \/ SetLocal
    \/ JumpIf \/ Jump \/ Loop \/ Call \/ Closure \/ Unimplemented
    \/ GetUpvalue \/ SetUpvalue \/ CloseUpvalue
    \/ Class \/ GetProperty \/ SetProperty \/ Method \/ Inherit \/ Invoke
    \/ InternSlice \/ InternOwned \/ Forget \/ Cycle \/ TableDone
    \/ JumpHead \/ JumpBody \/ JumpTail \/ IndexEmit
    \/ WriteByte \/ ChunkDone

Spec == Init /\ [][Next]_vars

\* compile() and run() are loops that go on to their next step until they
\* return: WF_vars(Next), written with the state predicate phase # "done"
\* that ENABLED <<Next>>_vars is equal to
Progress == []<>(phase = "done") \/ []<><<Next>>_vars

FairSpec == Spec /\ Progress

-----------------------------------------------------------------------------
(* The properties checked of the interpreter *)

\* the instruction about to execute, and the state it executes in
Executing(ops) == phase = "run" /\ status = "running" /\ Fetch \in ops

Zero == Number(0)

\* C10: a Divide whose operands are two numbers, the divisor being zero, is a
\* runtime error: the VM reports it and terminates, and leaves no quotient on
\* the stack.
C10_DivideByZeroIsRuntimeError ==
    [][(Executing({"Divide"}) /\ Len(stack) >= 2
          /\ Left(VM).t = "Number" /\ Right(VM) = Zero)
         => (status' = "runtime_error" /\ err_stream' # err_stream)]_vars

\* C10: the quotient of 1 by 0 is on the stack and the VM goes on
C10_InfinityPushed ==
    /\ last_op = "Divide"
    /\ status = "running"
    /\ stack # <<>>
    /\ Last(stack) = Ratio(1, 0)
    /\ err_stream = <<>>

\* the handles the VM can read: those of its roots
RootsLive == \A root \in Roots(VM) : Live(gc, root[2])

\* C1: GC transparency.  A collection at a safe point dereferences no invalid
\* pointer and does not fail in its accounting (either ends the process, which
\* changes the termination status of the program), and the handles held by
\* the stack, the call frames, the open upvalues and the defined globals stay
\* live.
C1_GCTransparency == ~gc_fault /\ (phase = "run" => RootsLive)

\* C1: a collection ended the process that a run without it would have
\* completed
C1_CollectionAborts ==
    /\ prog.name = "doubling_closure"
    /\ gc_fault
    /\ status = "abort"
    /\ last_op = "Add"

\* the upvalue list of the closure of the current frame
FrameUpvalues == gc.heap[current_frame.closure].upvalues

\* C2: closure aliasing.  GetUpvalue and SetUpvalue go through the upvalue
\* object the closure captured (an object of the heap, shared with the other
\* closures that captured the variable), and the program that writes a
\* captured variable through one closure, and through the declaring frame,
\* reads the written values through another: it prints 2, 3 and 5.
C2_ClosureAliasing ==
    /\ Executing({"GetUpvalue", "SetUpvalue"}) =>
          Live(gc, FrameUpvalues[ByteAt(VM, ip(VM) + 1) + 1])
    /\ (prog.name = "closure" /\ phase = "done") =>
          (status = "ok" /\ output_stream = <<"2", "3", "5">>)

\* C2: the upvalue a closure reads through is the null pointer Closure::new
\* put in its list
C2_NullUpvalueRead ==
    /\ Executing({"GetUpvalue", "SetUpvalue"})
    /\ FrameUpvalues[ByteAt(VM, ip(VM) + 1) + 1] = 0
    /\ Len(FrameUpvalues) > gc.heap[gc.heap[current_frame.closure].function].upvalue_count

\* the marks of the function the current frame runs, the height of the frame
\* above its first slot, and what lies below its locals: the callee (or the
\* receiver) in slot 0 of a called function, nothing in the main function
FrameMarks == FrameFunction(VM, current_frame).marks

FrameHeight == Len(stack) - current_frame.stack_start

FrameBase == IF Len(call_stack) = 1 THEN 0 ELSE 1

DeclaresLocal(m) ==
    m.what = "declaration" /\ m.kind \in {"Var", "Fun", "Class"} /\ m.depth > 0

\* C3: scope balance.  Where the code of a compiled statement begins and where
\* it ends the frame holds exactly the locals in scope there; a statement
\* ends with the locals it began with, so with the stack at the height it
\* began with, and a local declaration ends with one more.
C3_ScopeBalance ==
    (phase = "run" /\ status = "running") =>
       \A i \in 1..Len(FrameMarks) :
          LET m == FrameMarks[i]
          IN /\ ip(VM) = m.from => FrameHeight = FrameBase + m.locals_before
             /\ ip(VM) = m.to => FrameHeight = FrameBase + m.locals_after
             /\ m.locals_after = m.locals_before + (IF DeclaresLocal(m) THEN 1 ELSE 0)

\* C3: the VM is at the end of a for statement whose body declared a local
\* and ran continue, inside a block with a local of its own
C3_AfterForStatement ==
    /\ phase = "run"
    /\ prog.name = "control"
    /\ last_op # "None"
    /\ \E i \in 1..Len(FrameMarks) :
          /\ FrameMarks[i].kind = "For"
          /\ FrameMarks[i].locals_before = 1
          /\ FrameMarks[i].to > FrameMarks[i].from
          /\ ip(VM) = FrameMarks[i].to

\* the line of the stack trace for a frame
TraceLine(g, frame) ==
    LET fn == g.heap[g.heap[frame.closure].function]
    IN "[line " \o ToString(get_line_of(fn.chunk, frame.ip - 1)) \o "] in "
         \o (IF fn.name = "<main>" THEN "<main>" ELSE fn.name \o "()")

\* a step into a runtime error: one header line, then the frames from the
\* innermost outwards, at most STACK_TRACE_SIZE of them; the output is kept
RuntimeErrorStep ==
    status' = "runtime_error" =>
       /\ status = "running"
       /\ output_stream' = output_stream
       /\ Len(err_stream') =
             Len(err_stream) + 1 + Min(Len(call_stack'), STACK_TRACE_SIZE)
       /\ SubSeq(err_stream', 1, Len(err_stream)) = err_stream
       /\ SubSeq(err_stream'[Len(err_stream) + 1], 1, 15) = "Runtime error: "
       /\ \A i \in 1..Min(Len(call_stack'), STACK_TRACE_SIZE) :
             err_stream'[Len(err_stream) + 1 + i] =
                TraceLine(gc', IF i = 1 THEN current_frame'
                               ELSE call_stack'[Len(call_stack') + 1 - i])

\* C4: every runtime error is terminal and traced: the header once, then a
\* line per frame from the innermost outwards (at most 10, the outermost left
\* out) with the function and the line of the instruction the frame was at;
\* no step follows, and the output written before is kept.
C4_RuntimeErrorTerminalAndTraced ==
    /\ [][RuntimeErrorStep /\ status \in {"compiling", "running"}]_vars
    /\ []((prog.name = "trace" /\ phase = "done") =>
            /\ output_stream = <<"a">>
            /\ err_stream =
                 <<"Runtime error: Operands to '+' must be two numbers or strings",
                   "[line 2] in a()", "[line 5] in b()", "[line 8] in <main>">>)

\* C4: a runtime error under more frames than the trace shows
C4_DeepTrace ==
    /\ status = "runtime_error"
    /\ Len(call_stack) > STACK_TRACE_SIZE
    /\ Len(err_stream) = 1 + STACK_TRACE_SIZE
    /\ output_stream = <<"1">>

\* what the compilation reported, and what became of it
CompileOutcome ==
    /\ (phase = "run" \/ last_op # "None" \/ output_stream # <<>>) => ~comp.had_error
    /\ status = "compile_error" <=> (phase = "done" /\ comp.had_error)
    /\ status \in {"compiling", "compile_error"} =>
          (comp.had_error <=> err_stream # <<>>)
    /\ status = "compile_error" => comp.curr_token.kind = "Eof"
    /\ (prog.name = "err_two" /\ phase = "done") =>
          err_stream = <<"[line 1] Error at '1': Expected variable name",
                         "[line 3] Error at ';': Expected expression">>

\* C5: compile returns the function iff no error was reported: had_error is
\* never cleared, the compiler goes on to the end of the source after an
\* error and reports the later errors too, and once an error was reported no
\* function is returned and nothing is executed.
C5_FunctionIffNoError ==
    /\ []CompileOutcome
    /\ [][/\ comp.had_error => comp'.had_error
          /\ (phase = "compile" /\ phase' = "run") => ~comp'.had_error
          /\ (phase = "compile" /\ phase' = "done") => comp'.had_error
          /\ (phase = "compile" /\ phase' # "compile") => check(comp, "Eof")]_vars

\* C5: a compilation that reported three errors has ended without a function
C5_SeveralErrors ==
    /\ status = "compile_error"
    /\ Len(err_stream) = 3
    /\ call_stack = <<>>

\* the operands of the Call about to execute, and the arity the callee asks
CallArgs == ByteAt(VM, ip(VM) + 1)

Callee == stack[Len(stack) - CallArgs]

Initializer == gc.heap[Callee.n].methods

CalleeArity ==
    CASE Callee.t = "Closure" -> arity_of(VM, Callee.n)
      [] Callee.t = "NativeFunc" -> gc.heap[Callee.n].arity
      [] Callee.t = "BoundMethod" -> arity_of(VM, gc.heap[Callee.n].method)
      [] Callee.t = "Class" ->
           IF "init" \in DOMAIN Initializer THEN arity_of(VM, Initializer["init"]) ELSE 0

\* the closure whose code a fitting call enters, 0 if it enters none
CalleeClosure ==
    CASE Callee.t = "Closure" -> Callee.n
      [] Callee.t = "BoundMethod" -> gc.heap[Callee.n].method
      [] Callee.t = "Class" ->
           IF "init" \in DOMAIN Initializer THEN Initializer["init"] ELSE 0
      [] OTHER -> 0

Callable == Callee.t \in {"Closure", "NativeFunc", "Class", "BoundMethod"}

NoFramePushed ==
    /\ Len(call_stack') = Len(call_stack)
    /\ current_frame'.closure = current_frame.closure

ErrorReported(msg) ==
    /\ status' = "runtime_error"
    /\ err_stream'[Len(err_stream) + 1] = "Runtime error: " \o msg

CallStep ==
    (Executing({"Call"}) /\ Len(stack) > CallArgs) =>
       IF ~Callable
       THEN ErrorReported("Can only call functions and classes") /\ NoFramePushed
       ELSE IF CalleeArity # CallArgs
       THEN status' = "runtime_error" /\ NoFramePushed
       ELSE /\ status' = "running"
            /\ IF CalleeClosure = 0 THEN NoFramePushed
               ELSE /\ Len(call_stack') = Len(call_stack) + 1
                    /\ current_frame' = CallFrame(CalleeClosure, 0,
                                                  Len(stack) - CallArgs - 1)

\* C6: Call n is a runtime error that pushes no frame and enters no callee
\* when n is not the arity of the closure, bound method or native called, nor
\* that of the init method of the class called (0 for a class without init),
\* and when the callee is none of these; in every other case the call
\* proceeds.
C6_CallChecksArity == [][CallStep]_vars

\* C6: a bound method called with too many arguments
C6_BoundMethodMisfit ==
    /\ status = "runtime_error"
    /\ last_op = "Call"
    /\ prog.name = "bound_call"
    /\ Len(call_stack) = 1
    /\ err_stream[1] = "Runtime error: Incorrect number of arguments: expected 1, got 2"

GlobalOperand == Operand(Decoded, Long)

GlobalDefined(index) == index < Len(globals) /\ globals[index + 1].some

\* an undefined slot is a slot of the globals vector that holds None
GlobalStep ==
    /\ \A i \in 1..Len(globals) :
          /\ globals[i].some => globals'[i].some
          /\ (~globals[i].some /\ globals'[i].some) =>
                (Executing({"DefineGlobal", "DefineGlobalLong"}) /\ GlobalOperand = i - 1)
    /\ (/\ \/ Executing({"GetGlobal", "GetGlobalLong"})
           \/ Executing({"SetGlobal", "SetGlobalLong"}) /\ stack # <<>>
        /\ GlobalOperand < Len(globals)
        /\ ~GlobalDefined(GlobalOperand)) =>
          /\ ErrorReported("Undefined variable '"
                             \o global_var_names[GlobalOperand + 1] \o "'")
          /\ globals' = globals
    /\ (Executing({"DefineGlobal", "DefineGlobalLong"}) /\ stack # <<>>) =>
          /\ status' = "running"
          /\ globals' = [globals EXCEPT ![GlobalOperand + 1] = Some(Last(stack))]

\* C7: a global slot becomes defined only by a DefineGlobal on its index and
\* stays defined; GetGlobal and SetGlobal on an undefined slot are the runtime
\* error "Undefined variable" and leave the slot undefined; DefineGlobal on a
\* defined slot overwrites it without error.
C7_GlobalSlots == [][GlobalStep]_vars

\* C7: a global was defined twice and read in between, then an assignment to
\* an undefined one stopped the run
C7_RedefinedThenUndefined ==
    /\ prog.name = "globals"
    /\ status = "runtime_error"
    /\ last_op = "SetGlobal"
    /\ output_stream = <<"nil", "2">>
    /\ err_stream[1] = "Runtime error: Undefined variable 'y'"

Recursing == phase = "run" /\ prog.name \in {"recursion", "recursion_args"}

StackOverflowed ==
    /\ status = "runtime_error"
    /\ err_stream[1] = "Runtime error: Stack overflow: maximum stack size is 1024"

\* the instructions that push without popping
Pushing ==
    \/ Executing({"Constant", "ConstantLong", "Nil", "True", "False", "Closure", "Class"})
    \/ Executing({"GetGlobal", "GetGlobalLong"}) /\ GlobalDefined(GlobalOperand)
    \/ /\ Executing({"GetLocal", "GetLocalLong"})
       /\ current_frame.stack_start + GlobalOperand < Len(stack)

\* C9: the stack never holds more than VEC_SIZE values; an instruction that
\* would push onto a full stack is the runtime error "Stack overflow" and ends
\* the run; so unbounded recursion ends with this error.
C9_StackBounded ==
    /\ [](Len(stack) <= VEC_SIZE)
    /\ [][(Pushing /\ Len(stack) = VEC_SIZE) =>
             (/\ ErrorReported("Stack overflow: maximum stack size is 1024")
              /\ stack' = stack)]_vars
    /\ (Recursing ~> StackOverflowed)

\* C9: the overflow of a full stack, under more than 500 frames
C9_Overflow ==
    /\ StackOverflowed
    /\ Len(stack) = VEC_SIZE
    /\ Len(call_stack) > 500
    /\ last_op \in {"GetGlobal", "GetLocal"}

LiveStrings == {h \in Range(gc.lists["strings"]) : Live(gc, h)}

ContentOf(h) == gc.heap[h].s

\* equal content, same handle; one table entry for every live string
Canonical ==
    /\ \A h1, h2 \in LiveStrings : ContentOf(h1) = ContentOf(h2) => h1 = h2
    /\ str_intern_table = LiveStrings

\* the string the Add about to execute makes
Concatenation == ContentOf(Left(VM).n) \o ContentOf(Right(VM).n)

StringOperands ==
    /\ Len(stack) >= 2
    /\ Left(VM).t = "String" /\ Live(gc, Left(VM).n)
    /\ Right(VM).t = "String" /\ Live(gc, Right(VM).n)

StringStep ==
    /\ (Executing({"Add"}) /\ StringOperands /\ status' = "running") =>
          /\ Last(stack').t = "String"
          /\ gc'.heap[Last(stack').n].s = Concatenation
          /\ \A h \in LiveStrings : ContentOf(h) = Concatenation => Last(stack').n = h
    /\ (Executing({"Equal"}) /\ StringOperands) =>
          Last(stack') = Bool(ContentOf(Left(VM).n) = ContentOf(Right(VM).n))

\* C8: whatever the intern_slice and intern_owned calls and the collection
\* cycles so far, two live strings of equal content have the same handle and
\* the table holds one entry for every live string; the string an Add makes
\* has the handle of the live string of that content, if there is one, and
\* Equal on two strings says whether their contents are equal.
C8_InternCanonical == []Canonical /\ [][StringStep]_vars

\* C8: a content interned again after a cycle freed it, then once more
C8_InternedAgain ==
    /\ phase = "intern"
    /\ collections > 0
    /\ Len(stack) = 2
    /\ stack[1] = stack[2]
    /\ stack[1].n > 1
    /\ ContentOf(stack[1].n) = "hello"
    /\ Cardinality(LiveStrings) = 1

\* the name operand, the receiver and its fields and methods, for the
\* GetProperty or SetProperty about to execute
PropertyName == NameOperand(Decoded)

Instances == {h \in Range(gc.lists["class_instances"]) : Live(gc, h)}

Fields(h) == gc.heap[h].fields

Methods(h) == gc.heap[gc.heap[h].class].methods

GetPropertyStep ==
    (Executing({"GetProperty"}) /\ stack # <<>> /\ NameOperandOk(Decoded)) =>
       LET receiver == Last(stack)
       IN IF receiver.t # "ClassInstance"
          THEN /\ ErrorReported("Property must be accessed on a class instance")
               /\ stack' = stack
          ELSE IF PropertyName \in DOMAIN Fields(receiver.n)
          THEN /\ status' = "running"
               /\ stack' = [stack EXCEPT ![Len(stack)] = Fields(receiver.n)[PropertyName]]
          ELSE IF PropertyName \in DOMAIN Methods(receiver.n)
          THEN /\ status' = "running"
               /\ Len(stack') = Len(stack)
               /\ Front(stack') = Front(stack)
               /\ Last(stack').t = "BoundMethod"
               /\ Last(stack').n \notin DOMAIN gc.heap
               /\ gc'.heap[Last(stack').n].receiver = receiver.n
               /\ gc'.heap[Last(stack').n].method = Methods(receiver.n)[PropertyName]
          ELSE ErrorReported("Undefined property '" \o PropertyName \o "'")

SetPropertyStep ==
    (Executing({"SetProperty"}) /\ Len(stack) >= 2 /\ NameOperandOk(Decoded)) =>
       LET target == stack[Len(stack) - 1]
           value == Last(stack)
       IN IF target.t # "ClassInstance"
          THEN ErrorReported("Property must be accessed on a class instance")
          ELSE /\ status' = "running"
               /\ stack' = Append(SubSeq(stack, 1, Len(stack) - 2), value)
               /\ DOMAIN gc'.heap[target.n].fields = DOMAIN Fields(target.n) \cup {PropertyName}
               /\ \A f \in DOMAIN gc'.heap[target.n].fields :
                     gc'.heap[target.n].fields[f] =
                        IF f = PropertyName THEN value ELSE Fields(target.n)[f]
               /\ \A h \in Instances \ {target.n} : gc'.heap[h].fields = Fields(h)

\* nothing but SetProperty writes a field
FieldsKept ==
    Executing({"SetProperty"})
      \/ \A h \in Instances : h \in DOMAIN gc'.heap => gc'.heap[h].fields = Fields(h)

\* C11: GetProperty replaces the instance on top of the stack by its field of
\* that name if it has one, else by a new bound method of that instance and
\* the method of that name of its class, and is a runtime error if there is
\* neither or if the top is not an instance; SetProperty writes the field of
\* the one instance below the value, no other step writes a field, so a field
\* is read back on that instance and not seen on another.
C11_PropertyLookup == [][GetPropertyStep /\ SetPropertyStep /\ FieldsKept]_vars

\* C11: a field read over a method of its name, the method bound to another
\* instance and called, and a field of one instance missing on the other
C11_FieldShadowsMethod ==
    /\ prog.name = "property"
    /\ status = "runtime_error"
    /\ last_op = "GetProperty"
    /\ output_stream = <<"5", "9", "3">>
    /\ err_stream[1] = "Runtime error: Undefined property 'x'"

Classes == {h \in Range(gc.lists["classes"]) : Live(gc, h)}

ClassMethods(h) == gc.heap[h].methods

InheritStep ==
    (Executing({"Inherit"}) /\ Len(stack) >= 2) =>
       LET superclass == stack[Len(stack) - 1]
           subclass == Last(stack)
       IN IF superclass.t # "Class" THEN ErrorReported("Superclass must be a class")
          ELSE (subclass.t = "Class" /\ subclass.n # superclass.n) =>
                 /\ status' = "running"
                 /\ stack' = Front(stack)
                 /\ \A name \in DOMAIN ClassMethods(superclass.n) :
                       /\ name \in DOMAIN gc'.heap[subclass.n].methods
                       /\ gc'.heap[subclass.n].methods[name] = ClassMethods(superclass.n)[name]
                 /\ \A h \in Classes \ {subclass.n} : gc'.heap[h].methods = ClassMethods(h)

MethodStep ==
    (/\ Executing({"Method"}) /\ Len(stack) >= 2 /\ NameOperandOk(Decoded)
     /\ Last(stack).t = "Closure" /\ stack[Len(stack) - 1].t = "Class") =>
       LET class == stack[Len(stack) - 1].n
       IN /\ gc'.heap[class].methods = (PropertyName :> Last(stack).n) @@ ClassMethods(class)
          /\ \A h \in Classes \ {class} : gc'.heap[h].methods = ClassMethods(h)

\* nothing but Inherit and Method writes a method map
MethodsKept ==
    Executing({"Inherit", "Method"})
      \/ \A h \in Classes : h \in DOMAIN gc'.heap => gc'.heap[h].methods = ClassMethods(h)

\* C12: Inherit gives the subclass every method the superclass has at that
\* moment, with the same closure, and changes no other class; it is a runtime
\* error if the superclass operand is not a class.  Method writes the entry
\* of the one class it is executed on, and no other step writes a method
\* map: a method defined later on the subclass leaves the superclass as it
\* was and one defined later on the superclass does not reach the subclass.
C12_InheritCopiesOnce == [][InheritStep /\ MethodStep /\ MethodsKept]_vars

\* C12: the subclass called an inherited method and its own override, the
\* superclass kept its method, and a method the superclass got after Inherit
\* is undefined on the subclass
C12_LaterMethodNotInherited ==
    /\ prog.name = "inherit"
    /\ status = "runtime_error"
    /\ last_op = "GetProperty"
    /\ output_stream = <<"2", "3", "1">>
    /\ err_stream[1] = "Runtime error: Undefined property 'n'"

JumpOps == {"Jump", "JumpIfFalse", "JumpIfTrue", "Loop"}

\* the functions the compiler has written: the one it is writing and those
\* it has handed to the collector
CompiledFunctions ==
    {gc.heap[h] : h \in {f \in Range(gc.lists["functions"]) : Live(gc, f)}}
      \cup (IF phase \in {"compile", "jump_body", "jump_tail", "done"} THEN {comp.function} ELSE {})

\* the operand written at `at` is the distance from the byte after it to the
\* target the compiler recorded
JumpExact(f, j) ==
    LET code == f.chunk.code
        opcode == OpFromByte(code[j.at])
        operand == code[j.at + 1] * 256 + code[j.at + 2]
    IN /\ opcode \in JumpOps
       /\ operand <= U16_MAX
       /\ j.target = IF opcode = "Loop" THEN j.at + 2 - operand ELSE j.at + 2 + operand

JumpsExact == \A f \in CompiledFunctions : \A i \in DOMAIN f.jumps : JumpExact(f, f.jumps[i])

\* the distance the jump of a jump test has to span
JumpDistance(p) == IF p.name = "Loop" THEN p.pad + 5 ELSE p.pad

TooFarIsError ==
    (prog.kind = "jump" /\ phase \in {"compile", "run", "done"}) =>
       IF JumpDistance(prog) > U16_MAX
       THEN /\ phase # "run"
            /\ comp.had_error
            /\ err_stream = <<"[line 0] Error at end of file: Too much jump distance">>
            /\ phase = "done" => status = "compile_error"
       ELSE ~comp.had_error /\ err_stream = <<>>

JumpTaken ==
    CASE Fetch \in {"Jump", "Loop"} -> TRUE
      [] Fetch = "JumpIfFalse" -> stack # <<>> /\ Last(stack) = Bool(FALSE)
      [] Fetch = "JumpIfTrue" -> stack # <<>> /\ Last(stack) = Bool(TRUE)

\* a jump of compiled code that is taken goes where the compiler meant it to
JumpStep ==
    (Executing(JumpOps) /\ prog.kind # "bytecode") =>
       \E i \in DOMAIN FrameFunction(VM, current_frame).jumps :
          LET j == FrameFunction(VM, current_frame).jumps[i]
          IN /\ j.at = ip(VM) + 1
             /\ JumpTaken => current_frame'.ip = j.target

\* C13: the operand of every jump the compiler patched, and of every Loop it
\* emitted, is at most 65535 and is the distance to its target: the chunk
\* length when patch_jump was called, the loop start given to emit_loop.  A
\* jump that is executed and taken sets ip to that target.  A distance above
\* 65535 is a compile error and no function is returned.
C13_JumpBounds == []JumpsExact /\ []TooFarIsError /\ [][JumpStep]_vars

\* C13: a forward jump over exactly 65535 bytes was compiled and taken
C13_LongestJumpTaken ==
    /\ prog = JumpTest("JumpIfTrue", U16_MAX)
    /\ last_op = "JumpIfTrue"
    /\ status = "running"
    /\ current_frame.ip = 3 + U16_MAX + 1

LongOps == {"ConstantLong", "DefineGlobalLong", "GetGlobalLong", "SetGlobalLong",
            "GetLocalLong", "SetLocalLong", "PopNLong", "ClosureLong", "GetUpvalueLong",
            "SetUpvalueLong"}

\* the instructions whose handler reads an index with read_int8, read_int24,
\* read_constant or read_constant_long
IndexReaders ==
    {"Constant", "DefineGlobal", "GetGlobal", "SetGlobal", "GetLocal", "SetLocal",
     "GetUpvalue", "SetUpvalue", "Closure"} \cup (LongOps \ {"ClosureLong", "GetUpvalueLong",
                                                            "SetUpvalueLong"})

\* the bytes written at `at` are the short opcode and the index, or the long
\* opcode and the index in three bytes, high byte first
NumExact(f, n) ==
    LET code == f.chunk.code
        long == OpFromByte(code[n.at + 1]) \in LongOps
    IN /\ n.num \in 0..MAX24BIT
       /\ long <=> n.num > U8_MAX
       /\ n.num = IF long
                  THEN read_as_24bit_int(code[n.at + 2], code[n.at + 3], code[n.at + 4])
                  ELSE code[n.at + 2]

NumsExact == \A f \in CompiledFunctions : \A i \in DOMAIN f.nums : NumExact(f, f.nums[i])

\* the index the handler reads is the one the compiler wrote
IndexDecoded ==
    (Executing(IndexReaders) /\ prog.kind # "bytecode") =>
       \A i \in DOMAIN FrameFunction(VM, current_frame).nums :
          LET n == FrameFunction(VM, current_frame).nums[i]
          IN n.at = ip(VM) => Operand(Decoded, Long) = n.num

IndexTooLargeIsError ==
    (prog.kind = "index" /\ phase \in {"compile", "run", "done"}) =>
       IF prog.index > MAX24BIT
       THEN /\ phase # "run"
            /\ comp.had_error
            /\ err_stream = <<"[line 0] Error at end of file: Too many globals in the program">>
            /\ comp.function.nums = <<>>
            /\ phase = "compile" => comp.function.chunk.code = <<>>
       ELSE ~comp.had_error /\ err_stream = <<>>

\* C14: an index from 0 to 2^24 - 1 that emit_opcode_with_num writes is one
\* byte after the short opcode if it is at most 255 and three bytes, high
\* byte first, after the long opcode otherwise, and the handler of the
\* instruction reads that index back; an index above 2^24 - 1 is a compile
\* error, and nothing is written.
C14_IndexRoundTrip == NumsExact /\ IndexDecoded /\ IndexTooLargeIsError

\* C14: the index 2^24 - 1 is about to be read by GetGlobalLong
C14_LargestIndexRead ==
    /\ prog = IndexTest(MAX24BIT)
    /\ Executing({"GetGlobalLong"})
    /\ Operand(Decoded, TRUE) = MAX24BIT

\* the declaration the compiler is about to compile fails with `msg`
DeclarationFails(msg) ==
    /\ phase = "compile"
    /\ ~check(comp, "Eof")
    /\ Failed(descend("declaration", comp, 0))
    /\ descend("declaration", comp, 0).err.msg = msg

\* a constant whose index fits in 24 bits is refused
IndexRejected ==
    /\ DeclarationFails("Too many constants in the chunk")
    /\ Len(descend("declaration", comp, 0).function.chunk.constants) <= MAX24BIT + 1

\* a long instruction that goes on consumes its opcode and three bytes
LongStep ==
    (Executing(LongOps) /\ status' = "running" /\ Len(call_stack') = Len(call_stack)) =>
       current_frame'.ip = ip(VM) + 4

\* C15: an index from 256 to 2^24 - 1 is never refused by the compiler, and
\* every long instruction of the VM consumes its three operand bytes.
C15_LongFormsWork == [](~IndexRejected) /\ [][LongStep]_vars

\* C15: a class whose name would be the constant 256 of its chunk was refused
C15_ClassNameRejected ==
    /\ prog.name = "long_class"
    /\ status = "compile_error"
    /\ Len(comp.function.chunk.constants) = U8_MAX + 2
    /\ err_stream = <<"[line 2] Error at 'A': Too many constants in the chunk">>

\* what the Closure handler does, for either opcode
ClosureLongStep ==
    (Executing({"ClosureLong"}) /\ prog.kind = "source") =>
       \/ status' # "running"
       \/ /\ Len(stack') = Len(stack) + 1
          /\ Last(stack').t = "Closure"
          /\ current_frame'.ip >= ip(VM) + 4

\* C16: a ClosureLong that the compiler wrote for a function constant of
\* index above 255 pushes the closure and consumes its operand, as Closure
\* does.
C16_ClosureLongIsClosure == [][ClosureLongStep]_vars

\* C16: ClosureLong did nothing, and the first byte of its operand is the
\* next opcode
C16_OperandRunAsOpcode ==
    /\ prog.name = "long_function"
    /\ last_op = "ClosureLong"
    /\ status = "running"
    /\ stack = <<>>
    /\ Fetch = "Constant"
    /\ FrameFunction(VM, current_frame).nums[U8_MAX + 2] = [at |-> ip(VM) - 1, num |-> U8_MAX + 1]

\* the chunk a host wrote and the lines it passed, byte by byte
Written == comp.function.chunk

LinesPassed == comp.function.marks

\* get_line_of gives, for every byte, the line it was written with
LineOfEachByte ==
    \A i \in 0..(Len(Written.code) - 1) : get_line_of(Written, i) = LinesPassed[i + 1]

\* the bytes that have an entry in the line table: byte 0 and every byte
\* whose line is not the line of the byte before, in increasing order
LineTableAtBoundaries ==
    LET table == Written.line_info
    IN /\ {table[k].byte_idx : k \in DOMAIN table} =
            {i \in 0..(Len(Written.code) - 1) :
               i = 0 \/ LinesPassed[i + 1] # LinesPassed[i]}
       /\ \A k \in DOMAIN table : table[k].line = LinesPassed[table[k].byte_idx + 1]
       /\ \A k \in 1..(Len(table) - 1) : table[k].byte_idx < table[k + 1].byte_idx

LinesAscend(ch) ==
    \A i \in 0..(Len(ch.code) - 2) : get_line_of(ch, i) <= get_line_of(ch, i + 1)

\* the host never passed a line below the one before
PassedAscending == \A i \in 1..(Len(LinesPassed) - 1) : LinesPassed[i] <= LinesPassed[i + 1]

\* the compiler passes the line of the token it has just consumed
CompiledLinesAscend ==
    prog.kind = "source" => \A f \in CompiledFunctions : LinesAscend(f.chunk)

\* C17: in a chunk built by write_byte calls, get_line_of(i) is the line
\* byte i was written with, and the line table has an entry at byte 0 and at
\* every byte whose line is not that of the byte before, and nowhere else,
\* with strictly increasing byte indices.  line_of(i) <= line_of(i + 1) holds
\* if no call passed a line below the line of the call before, as is the
\* case in every chunk the compiler writes.
C17_LineTable ==
    /\ prog.kind = "chunk" =>
          /\ LineOfEachByte
          /\ LineTableAtBoundaries
          /\ PassedAscending => LinesAscend(Written)
    /\ CompiledLinesAscend

\* C17: as claimed, line_of(i) <= line_of(i + 1) in a chunk built by any
\* write_byte calls
C17_LinesAscendAlways == prog.kind = "chunk" => LinesAscend(Written)

\* C17: four bytes were written on the lines 1, 1, 2, 2, and the table has
\* its two entries
C17_TwoLines ==
    /\ prog.kind = "chunk"
    /\ LinesPassed = <<1, 1, 2, 2>>
    /\ Written.line_info = <<[byte_idx |-> 0, line |-> 1], [byte_idx |-> 2, line |-> 2]>>
    /\ get_line_of(Written, 1) = 1 /\ get_line_of(Written, 2) = 2

\* what the scoping rules give for a scoping program: the first compile
\* error, or the runtime error, or what is printed
Redeclares(p) == ~p.nested /\ p.declared = "a"

OwnInitializer(p) == ~Redeclares(p) /\ p.initializer = p.declared

UndefinedGlobal(p) == ~Redeclares(p) /\ ~OwnInitializer(p) /\ p.initializer = "b"

ScopingPrints(p) ==
    LET value == IF p.initializer = "a" THEN "1" ELSE p.initializer
    IN <<value, IF p.declared = "a" THEN value ELSE "1">>
         \o (IF p.nested THEN <<"1">> ELSE <<>>)

ScopingOutcome ==
    (prog.name = "scoping" /\ phase = "done") =>
       CASE Redeclares(prog) ->
              /\ status = "compile_error"
              /\ err_stream[1] = "[line 1] Error at 'a': Redeclaration of variable 'a'"
         [] OwnInitializer(prog) ->
              /\ status = "compile_error"
              /\ err_stream[1] = "[line 1] Error at '" \o prog.declared
                                   \o "': Cannot use variable '" \o prog.declared
                                   \o "' in its own initializer"
         [] UndefinedGlobal(prog) ->
              /\ status = "runtime_error"
              /\ err_stream[1] = "Runtime error: Undefined variable 'b'"
              /\ output_stream = <<>>
         [] OTHER ->
              /\ status = "ok"
              /\ err_stream = <<>>
              /\ output_stream = ScopingPrints(prog)

\* no scope of the function being compiled has two locals of one name
NoDuplicateLocal ==
    phase \in {"compile", "done"} =>
       \A i, j \in DOMAIN comp.locals :
          (i < j /\ comp.locals[i].name = comp.locals[j].name) =>
             comp.locals[i].depth < comp.locals[j].depth

\* C18: a local declared with a name that its scope already has is a compile
\* error; with the name of a local of an outer scope it is accepted and
\* shadows that local until its block ends; a local is not initialized while
\* its initializer is compiled, so that its name in its own initializer is a
\* compile error and is not the outer variable of that name.
C18_LocalScoping == ScopingOutcome /\ NoDuplicateLocal

\* C18: `{ var a = 1; { var a = a; ... } ... }` was refused
C18_OwnInitializerRefused ==
    /\ prog = Scoping(TRUE, "a", "a")
    /\ phase = "done"
    /\ status = "compile_error"
    /\ err_stream[1] = "[line 1] Error at 'a': Cannot use variable 'a' in its own initializer"

\* a conditional jump looks at the top of the stack and leaves it there
JumpIfStep ==
    (Executing({"JumpIfFalse", "JumpIfTrue"}) /\ stack # <<>>) =>
       /\ stack' = stack
       /\ IF Last(stack).t = "Bool" THEN status' = "running"
          ELSE ErrorReported("Expected 'bool' as condition")

\* the left operand decides: the right operand, an assignment to x, is
\* evaluated and is the value of the expression, or is skipped
RightEvaluated(p) == p.left = (IF p.operator = "and" THEN "true" ELSE "false")

LogicOutcome ==
    (prog.name = "logic" /\ phase = "done") =>
       IF prog.left \in {"true", "false"}
       THEN /\ status = "ok"
            /\ err_stream = <<>>
            /\ output_stream = IF RightEvaluated(prog) THEN <<"5", "5">>
                               ELSE <<prog.left, "0">>
       ELSE /\ status = "runtime_error"
            /\ err_stream[1] = "Runtime error: Expected 'bool' as condition"
            /\ output_stream = <<>>

\* C19: JumpIfFalse and JumpIfTrue leave the stack as it is, and are a
\* runtime error if its top is not a Bool.  `a and b` is a, with b not
\* evaluated, if a is false, and is b if a is true; `a or b` is a, with b not
\* evaluated, if a is true, and is b if a is false.
C19_StrictShortCircuit == []LogicOutcome /\ [][JumpIfStep]_vars

\* C19: `false and (x = 5)` was false and left x as it was
C19_RightOperandSkipped ==
    /\ prog = Logic("and", "false")
    /\ phase = "done"
    /\ output_stream = <<"false", "0">>

\* what a for loop prints if it runs in the order stated: the condition c,
\* then the body b ... B, whose B a continue skips, then the update u, from
\* i = 0 until c() is false at i = 2
RECURSIVE ForPrints(_, _)
ForPrints(p, i) ==
    IF i >= 2 THEN <<"c">>
    ELSE <<"c", "b">>
           \o (IF p.clause
               THEN (IF p.continues /\ i = 0 THEN <<>> ELSE <<"B">>) \o <<"u">>
               ELSE <<"u">> \o (IF p.continues /\ i + 1 = 1 THEN <<>> ELSE <<"B">>))
           \o ForPrints(p, i + 1)

IsPrefix(s, t) == Len(s) <= Len(t) /\ s = SubSeq(t, 1, Len(s))

\* what is printed is, at every moment, the beginning of that; at the end
\* it is all of it, and the stack holds nothing of the loop
ForOutcome ==
    prog.name = "for" =>
       /\ IsPrefix(output_stream, ForPrints(prog, 0) \o <<"end">>)
       /\ phase = "done" =>
             /\ status = "ok"
             /\ output_stream = ForPrints(prog, 0) \o <<"end">>
       /\ (Executing({"Print"}) /\ output_stream = ForPrints(prog, 0)) => Len(stack) = 1

\* C20: a for loop runs its initializer once, then the condition, the body
\* if it is true, the update, and the condition again; a continue in the
\* body goes to the update if there is one and to the condition otherwise;
\* the update does not run before the body has; the variable of the
\* initializer is off the stack when the loop has ended.
C20_ForLoopOrder == ForOutcome

\* C20: a continue in the first turn of the loop skipped the rest of the
\* body and ran the update
C20_ContinueRanUpdate ==
    /\ prog = For(TRUE, TRUE)
    /\ phase = "done"
    /\ output_stream = <<"c", "b", "u", "c", "b", "B", "u", "c", "end">>

-----------------------------------------------------------------------------
(* Assignment *)

\* the slot of the stack that SetLocal is about to write
LocalSlot == current_frame.stack_start + GlobalOperand

\* SetLocal and SetGlobal leave the stack as it is, the assigned value on
\* top, and the variable holds that value; DefineGlobal takes the
\* initializer off the stack
StoreStep ==
    /\ (Executing({"SetLocal", "SetLocalLong"}) /\ stack # <<>> /\ LocalSlot < Len(stack)) =>
          /\ status' = "running"
          /\ Len(stack') = Len(stack)
          /\ Last(stack') = Last(stack)
          /\ stack'[LocalSlot + 1] = Last(stack)
    /\ (Executing({"SetGlobal", "SetGlobalLong"}) /\ stack # <<>>
          /\ GlobalDefined(GlobalOperand)) =>
          /\ status' = "running"
          /\ stack' = stack
          /\ globals'[GlobalOperand + 1] = Some(Last(stack))
    /\ (Executing({"DefineGlobal", "DefineGlobalLong"}) /\ stack # <<>>
          /\ GlobalOperand < Len(globals)) =>
          /\ stack' = Front(stack)
          /\ globals'[GlobalOperand + 1] = Some(Last(stack))

\* the upvalue that SetUpvalue is about to write through
UpvalueOperand == FrameUpvalues[ByteAt(VM, ip(VM) + 1) + 1]

\* SetUpvalue leaves the stack as it is, and the captured variable holds the
\* value on top of it
SetUpvalueStep ==
    (Executing({"SetUpvalue"}) /\ stack # <<>>) =>
       /\ status' = "running"
       /\ stack' = stack \/ (Len(stack') = Len(stack) /\ Last(stack') = Last(stack))
       /\ Live(gc', UpvalueOperand)
       /\ ReadLocation(gc'.heap[UpvalueOperand], stack' \o stale') = Last(stack)

\* a = b = 1 gives 1 to both, as globals and as locals
AssignOutcome ==
    (prog.name = "assign" /\ phase = "done") =>
       (status = "ok" /\ output_stream = <<"1", "1", "2", "2">>)

\* C21: an assignment is an expression.  SetLocal, SetGlobal and SetUpvalue
\* leave the height of the stack unchanged and the assigned value on top, and
\* the variable holds it, so that a = b = 1 gives 1 to both; DefineGlobal
\* takes the initializer off the stack.
C21_AssignmentIsExpression ==
    [][StoreStep /\ SetUpvalueStep]_vars /\ []AssignOutcome

\* C21: an assignment to a captured variable went through the null pointer
\* at the head of the closure's upvalue list, and the variable kept its value
C21_UpvalueAssignmentLost ==
    /\ prog.name = "closure"
    /\ last_op = "SetUpvalue"
    /\ status = "running"
    /\ ub
    /\ stack[1] = Number(1)
    /\ Last(stack) = Number(2)

\* C21 without SetUpvalue: the chained assignment of globals and of locals
C21_ChainedAssignment ==
    /\ prog.name = "assign"
    /\ phase = "done"
    /\ output_stream = <<"1", "1", "2", "2">>

-----------------------------------------------------------------------------
(* Determinism *)

\* the handlers in which an undefined operation can occur
OracleOps ==
    {"Add", "Print", "Call", "Closure", "GetUpvalue", "SetUpvalue", "Class", "GetProperty",
     "Inherit"}

\* the VM after the instruction at ip, the undefined operations of its
\* handler, if there are any, turning out as o says
Outcome(o) ==
    CASE Fetch = "Add" -> binary_add(Decoded, o)
      [] Fetch = "Print" -> op_Print(Decoded, o)
      [] Fetch = "Call" -> op_Call(Decoded, o)
      [] Fetch = "Closure" -> op_Closure(Decoded, o)
      [] Fetch = "GetUpvalue" -> op_GetUpvalue(Decoded, o)
      [] Fetch = "SetUpvalue" -> op_SetUpvalue(Decoded, o)
      [] Fetch = "Class" -> op_Class(Decoded, o)
      [] Fetch = "GetProperty" -> op_GetProperty(Decoded, o)
      [] Fetch = "Inherit" -> op_Inherit(Decoded, o)

\* the programs that call no native function
CallsNoNative == prog.kind \in {"source", "bytecode"} /\ prog.name # "native"

\* C22: determinism.  A VM state of a program that calls no native function
\* has exactly one successor: what the instruction at ip does, a collection
\* inside it included, is a function of the state, so two runs of a compiled
\* program give the same output, the same errors and the same status.  (The
\* other handlers are functions of the state by construction; the maps of
\* methods and fields are read as maps, in no order.)
C22_Determinism ==
    (Executing(OracleOps) /\ CallsNoNative) =>
       \A o1, o2 \in Oracles : Outcome(o1) = Outcome(o2)

\* C22: a read through a null upvalue pointer ends one run and lets another
\* go on with what it read
C22_TwoSuccessors ==
    /\ Executing({"GetUpvalue"})
    /\ prog.name = "closure"
    /\ \E o1, o2 \in Oracles :
          /\ Outcome(o1).status = "abort"
          /\ Outcome(o2).status = "running"
          /\ Last(Outcome(o2).stack) = o2.junk

-----------------------------------------------------------------------------
(* Class declarations with methods *)

\* the class A of the program, at run time
ClassA == {h \in Classes : gc.heap[h].name = "A"}

\* the declaration compiles; each Method instruction follows the Closure of
\* its method; when the program has run, class A has its k methods
MethodsOutcome ==
    prog.name = "methods" =>
       /\ ~comp.had_error
       /\ err_stream = <<>>
       /\ Executing({"Method"}) => last_op = "Closure"
       /\ phase = "done" =>
             /\ status = "ok"
             /\ \E h \in ClassA :
                   DOMAIN ClassMethods(h) = {MethodNames[i] : i \in 1..prog.k}

\* C23: a class declaration with k methods in its body compiles without
\* error, to Class, the definition of the class variable and, for each
\* method, Closure and Method <name>, so that the class has exactly those k
\* methods at run time.
C23_MethodsCompiled == MethodsOutcome

\* C23: the compiler refuses the first method of a class body
C23_MethodRefused ==
    /\ prog = MethodsTest(1)
    /\ phase = "done"
    /\ status = "compile_error"
    /\ err_stream = <<"[line 2] Error at 'm': Expected '}' after class body">>

\* C23 for k = 0: the class of an empty body has no method
C23_EmptyClass ==
    /\ prog = MethodsTest(0)
    /\ phase = "done"
    /\ status = "ok"
    /\ \E h \in ClassA : DOMAIN ClassMethods(h) = {}

-----------------------------------------------------------------------------
(* Call and return *)

\* a call that enters a closure puts the frame on the callee's slot, n + 1
\* below the top, and saves the caller's ip, which is past the operand of
\* the Call
EnterStep ==
    (Executing({"Call"}) /\ Len(stack) > CallArgs /\ Len(call_stack') = Len(call_stack) + 1) =>
       /\ current_frame'.stack_start = Len(stack) - CallArgs - 1
       /\ current_frame'.ip = 0
       /\ Len(stack') = Len(stack)
       /\ Front(call_stack') = [call_stack EXCEPT ![Len(call_stack)].ip = ip(VM) + 2]
       /\ Last(call_stack') = current_frame'

\* the instruction before offset at in the code of the frame's function is
\* a Call, or an Invoke, which calls the method it finds
AfterCall(frame) ==
    \/ /\ frame.ip >= 2
       /\ OpFromByte(FrameFunction(VM, frame).chunk.code[frame.ip - 1]) = "Call"
    \/ /\ frame.ip >= 3
       /\ OpFromByte(FrameFunction(VM, frame).chunk.code[frame.ip - 2]) = "Invoke"

\* a Return under which frames remain leaves the stack below the callee's
\* slot and the returned value on it, no open upvalue at or above that slot,
\* and the caller at the ip it saved; the Return of the last frame ends the
\* run
ReturnStep ==
    (Executing({"Return"}) /\ Len(stack) > current_frame.stack_start) =>
       IF Len(call_stack) = 1
       THEN status' = "ok" /\ phase' = "done" /\ call_stack' = <<>>
       ELSE LET slot == current_frame.stack_start
                caller == call_stack[Len(call_stack) - 1]
            IN /\ status' = "running"
               /\ stack' = SubSeq(stack, 1, slot) \o <<Last(stack)>>
               /\ \A i \in DOMAIN open_upvalues' : open_upvalues'[i].stack_index < slot
               /\ call_stack' = Front(call_stack)
               /\ current_frame' = caller
               /\ AfterCall(caller)

\* C24: call and return.  A Return of a frame entered by a call with n
\* arguments, other frames remaining, leaves the caller's stack below the
\* callee's slot followed by the returned value (the height before the call
\* minus n), no open upvalue at or above that slot, and the caller at the
\* instruction after its call, with the ip it saved; the Return of the last
\* frame ends the run successfully.
C24_CallReturn == [][EnterStep /\ ReturnStep]_vars

\* C24: a function called with two arguments has returned, closing the
\* upvalue of one of its slots, and its caller goes on
C24_ReturnedClosing ==
    /\ prog.name = "returns"
    /\ last_op = "Return"
    /\ status = "running"
    /\ stack = <<Number(7)>>
    /\ open_upvalues = <<>>
    /\ \E h \in DOMAIN gc.heap :
          /\ h \in Range(gc.lists["upvalues"])
          /\ gc.heap[h].location.closed

-----------------------------------------------------------------------------
(* The upvalue list of a closure *)

Closures == {h \in Range(gc.lists["closures"]) : Live(gc, h)}

\* no closure holds a null or unallocated upvalue pointer
NoNullUpvalue ==
    \A h \in Closures :
       \A i \in DOMAIN gc.heap[h].upvalues :
          gc.heap[h].upvalues[i] # 0 /\ Live(gc, gc.heap[h].upvalues[i])

\* the function the Closure instruction at ip makes a closure of
ClosureFunction == gc.heap[read_constant(Decoded, FALSE).n]

\* operand pair i of the Closure instruction at ip
PairIsLocal(i) == ByteAt(VM, ip(VM) + 2 * i) = 1

PairIndex(i) == ByteAt(VM, ip(VM) + 2 * i + 1)

\* the open upvalues of a slot, in the next state
OpenOn(slot) ==
    {open_upvalues'[k].upvalue :
       k \in {j \in DOMAIN open_upvalues' : open_upvalues'[j].stack_index = slot}}

\* the closure a Closure instruction leaves on the stack has one upvalue for
\* each of its operand pairs, in their order
ClosureListStep ==
    (Executing({"Closure"}) /\ status' = "running") =>
       LET list == gc'.heap[Last(stack').n].upvalues
       IN /\ Last(stack').t = "Closure"
          /\ Len(list) = ClosureFunction.upvalue_count
          /\ \A i \in 1..ClosureFunction.upvalue_count :
                /\ i <= Len(list)
                /\ IF PairIsLocal(i)
                   THEN list[i] \in OpenOn(current_frame.stack_start + PairIndex(i))
                   ELSE list[i] = FrameUpvalues[PairIndex(i) + 1]

\* C25: when a Closure instruction has finished, the upvalue list of the new
\* closure has exactly upvalue_count entries, entry i being the upvalue that
\* operand pair i names (the upvalue of the frame's local, or the upvalue of
\* the current closure); at no time does the list of a closure hold a null
\* or unallocated pointer.
C25_UpvalueList == []NoNullUpvalue /\ [][ClosureListStep]_vars

\* C25: a closure of one upvalue has a list of two, the first one null
C25_NullAhead ==
    /\ last_op = "Closure"
    /\ status = "running"
    /\ Last(stack).t = "Closure"
    /\ gc.heap[gc.heap[Last(stack).n].function].upvalue_count = 1
    /\ Len(gc.heap[Last(stack).n].upvalues) = 2
    /\ gc.heap[Last(stack).n].upvalues[1] = 0
    /\ gc.heap[Last(stack).n].upvalues[2] # 0

-----------------------------------------------------------------------------
(* The open upvalues *)

\* the list is in strictly ascending order of stack index
OpenSorted ==
    \A i, j \in DOMAIN open_upvalues :
       i < j => open_upvalues[i].stack_index < open_upvalues[j].stack_index

\* every entry is of a slot of the stack, and its upvalue points at that slot
OpenOnStack ==
    \A i \in DOMAIN open_upvalues :
       /\ open_upvalues[i].stack_index < Len(stack)
       /\ Live(gc, open_upvalues[i].upvalue)
       /\ gc.heap[open_upvalues[i].upvalue].location =
             [closed |-> FALSE, idx |-> open_upvalues[i].stack_index]

\* C26: in every state of the VM the list of open upvalues is sorted by
\* strictly ascending stack index, so that a slot has at most one open
\* upvalue; the stack index of every entry is below the height of the stack,
\* and the upvalue of the entry points at that slot.
C26_OpenUpvaluesSorted == (phase = "run" /\ status = "running") => (OpenSorted /\ OpenOnStack)

\* C26: an upvalue was captured for a slot below that of an open one, and a
\* second closure has captured the same slot
C26_CapturedBelow ==
    /\ prog.name = "captures"
    /\ phase = "run"
    /\ Len(open_upvalues) = 2
    /\ open_upvalues[1].upvalue > open_upvalues[2].upvalue
    /\ Cardinality({h \in Closures : open_upvalues[1].upvalue \in Range(gc.heap[h].upvalues)}) = 2

\* C26: in a called function the upvalue of a block's local is one slot
\* below the local, and is still open when the block has popped that slot
C26_OpenAboveStack ==
    /\ prog.name = "captures_in_function"
    /\ phase = "run"
    /\ status = "running"
    /\ Len(call_stack) = 2
    /\ Len(open_upvalues) = 1
    /\ open_upvalues[1].stack_index = Len(stack)

-----------------------------------------------------------------------------
(* Closing upvalues *)

Upvalues == {h \in Range(gc.lists["upvalues"]) : Live(gc, h)}

\* the open upvalues that close_upvalues(t) closes
ClosedBy(t) == {i \in DOMAIN open_upvalues : open_upvalues[i].stack_index >= t}

\* the step is a close_upvalues(t): the entries at or above t leave the
\* list, the others stay as they are, and each upvalue that left holds the
\* value of its slot and points at it itself
Closes(t) ==
    LET Below(entry) == entry.stack_index < t
    IN /\ open_upvalues' = SelectSeq(open_upvalues, Below)
       /\ \A i \in ClosedBy(t) :
             LET slot == open_upvalues[i].stack_index
                 upvalue == gc'.heap[open_upvalues[i].upvalue]
             IN /\ upvalue.location.closed
                /\ slot < Len(Buffer(VM)) => upvalue.closed = Buffer(VM)[slot + 1]

\* a closed upvalue is changed by nothing but a SetUpvalue: writing the
\* slot it was of, or using that slot again, does not change it
ClosedKept ==
    \A h \in Upvalues :
       (gc.heap[h].location.closed /\ Live(gc', h) /\ ~Executing({"SetUpvalue"})) =>
          gc'.heap[h] = gc.heap[h]

\* CloseUpvalue closes the upvalue of the top slot, if it has one, and
\* nothing else, and pops the slot
CloseUpvalueStep ==
    (Executing({"CloseUpvalue"}) /\ stack # <<>>) =>
       /\ Closes(Len(stack) - 1)
       /\ stack' = Front(stack)
       /\ Cardinality(ClosedBy(Len(stack) - 1)) <= 1
       /\ \A i \in ClosedBy(Len(stack) - 1) : open_upvalues[i].stack_index = Len(stack) - 1

\* a Return to a caller closes the upvalues of the frame
ReturnCloses ==
    (Executing({"Return"}) /\ Len(call_stack) > 1) => Closes(current_frame.stack_start)

\* C27: close_upvalues(t) takes off the open list exactly the entries whose
\* stack index is at least t and leaves the others as they are, in their
\* order; each upvalue taken off holds the value its slot had and no longer
\* points into the stack, so that what is later written to the slot does not
\* change it; CloseUpvalue closes at most one upvalue, that of the top slot,
\* and pops the slot.
C27_CloseUpvalues ==
    [][phase = "run" => (ClosedKept /\ CloseUpvalueStep /\ ReturnCloses)]_vars

\* C27: in a called function CloseUpvalue closed an upvalue of a slot above
\* the stack: the variable c, which was 3, now holds what was left in that
\* slot, the closure k
C27_ClosedAboveStack ==
    /\ prog.name = "stale_upvalue"
    /\ last_op = "CloseUpvalue"
    /\ Len(call_stack) = 2
    /\ Len(open_upvalues) = 1
    /\ \E h \in Upvalues : gc.heap[h].location.closed /\ gc.heap[h].closed.t = "Closure"

\* C27 in the main frame: the closed upvalue of a holds 3, and the slot a
\* had holds the 4 that was printed
C27_ClosedKeepsValue ==
    /\ prog.name = "captures"
    /\ last_op = "Print"
    /\ Buffer(VM)[1] = Number(4)
    /\ \E h \in Upvalues : gc.heap[h].location.closed /\ gc.heap[h].closed = Number(3)

-----------------------------------------------------------------------------
(* The frame of a called function *)

\* the code of pick if slot 0 is the callee's and parameter i is local i
PickCode ==
    <<OpByte("GetLocal"), 1, OpByte("Print"), OpByte("GetLocal"), 2, OpByte("Print")>>

\* pick(1, 2): the parameters are locals 1 and 2 in the code of pick; a
\* GetLocal in its frame reads the argument of that number, which is at that
\* offset from stack_start; the program prints the arguments
ParamsOutcome ==
    prog.name = "params" =>
       /\ \A f \in CompiledFunctions :
             f.name = "pick" => IsPrefix(PickCode, f.chunk.code)
       /\ (Executing({"GetLocal"}) /\ Len(call_stack) = 2) =>
             /\ LocalSlot < Len(stack)
             /\ stack[LocalSlot + 1] = Number(GlobalOperand)
       /\ phase = "done" => (status = "ok" /\ output_stream = <<"1", "2">>)

\* C28: the compiler and the VM agree on the frame of a called function.
\* Local 0 is the callee (or the receiver) and parameter i, counted from 1,
\* is local i: the index the compiler gives a parameter or a local of the
\* body is the offset of its value from stack_start, the callee's slot, and
\* GetLocal, SetLocal and the capture of a parameter reach the argument.
C28_FrameLayout == ParamsOutcome

\* C28: the first parameter was read from the callee's slot and the second
\* from the slot of the first argument
C28_CalleeReadAsParameter ==
    /\ prog.name = "params"
    /\ phase = "done"
    /\ status = "ok"
    /\ output_stream = <<"<fn pick>", "1">>

-----------------------------------------------------------------------------
(* Marking *)

\* the edges of the heap graph, from an object to the pointers it holds
Edges(item) ==
    LET o == gc.heap[item[2]]
    IN CASE item[1] = "functions" -> UNION {PtrOf(v) : v \in Range(o.chunk.constants)}
         [] item[1] = "closures" ->
              {<<"functions", o.function>>} \cup {<<"upvalues", u>> : u \in Range(o.upvalues)}
         [] item[1] = "upvalues" -> PtrOf(ReadLocation(o, Buffer(VM)))
         [] item[1] = "classes" -> {<<"closures", o.methods[m]>> : m \in DOMAIN o.methods}
         [] item[1] = "class_instances" ->
              {<<"classes", o.class>>} \cup UNION {PtrOf(o.fields[f]) : f \in DOMAIN o.fields}
         [] item[1] = "bound_methods" ->
              {<<"class_instances", o.receiver>>, <<"closures", o.method>>}
         [] OTHER -> {}

\* what can be reached from a set of pointers along the edges
RECURSIVE Reachable(_)
Reachable(ptrs) ==
    LET next == ptrs \cup UNION {Edges(p) : p \in {q \in ptrs : Live(gc, q[2])}}
    IN IF next = ptrs THEN ptrs ELSE Reachable(next)

\* the objects of a kind among pointers
ObjectsOf(kind, ptrs) == {p[2] : p \in {q \in ptrs : q[1] = kind /\ Live(gc, q[2])}}

\* a mark phase from the roots of the VM ends with its worklists empty,
\* has dereferenced valid pointers only, and has marked the objects that can
\* be reached from the roots, and no others
MarkingExact ==
    LET Exact(t, reached) ==
            /\ t.work = {}
            /\ ~t.ub
            /\ \A k \in KindSet : t.marked[k] = ObjectsOf(k, reached)
    IN Exact(MarkPhase(VM, Nil), Reachable(Roots(VM)))

\* C29: marking is exact and terminates.  On the heap of any state of the
\* VM, cyclic ones included, trace_references ends with every worklist empty
\* and the marked sets are the objects that can be reached from the roots
\* along function -> constants, closure -> function and upvalues, upvalue ->
\* the value at its location, class -> methods, instance -> class and
\* fields, bound method -> receiver and method.
C29_MarkingExact == (phase = "run" /\ status = "running") => MarkingExact

\* C29: the roots reach a closure whose upvalue list begins with a null
\* pointer, which the mark phase marks and dereferences
C29_NullTraced ==
    /\ phase = "run"
    /\ status = "running"
    /\ MarkPhase(VM, Nil).ub
    /\ 0 \in MarkPhase(VM, Nil).marked["upvalues"]

\* C29 on a cycle without a closure: a collection has run on the heap of an
\* instance that is its own field, and kept the instance and the string
\* that only its other field holds
C29_CycleMarked ==
    /\ prog.name = "cycle"
    /\ collections > 0
    /\ phase = "done"
    /\ status = "ok"
    /\ output_stream = <<"ab">>
    /\ \E h \in Instances : gc.heap[h].fields["x"] = Obj("ClassInstance", h)

-----------------------------------------------------------------------------
(* Sweep *)

\* an instruction during which a collection completed
Collected == phase = "run" /\ phase' = "run" /\ collections' = collections + 1

\* the objects the collector had before the instruction
Before(k) == {h \in Range(gc.lists[k]) : h < gc.next_handle}

\* the list of a kind is the list it was, restricted to the marked handles
\* (the objects allocated during the instruction follow it)
ListRestricted(k) ==
    SelectSeq(gc'.lists[k], LAMBDA h : h < gc.next_handle)
      = SelectSeq(gc.lists[k], LAMBDA h : h \in gc'.marked[k])

\* the marked objects are allocated still, the unmarked ones are freed, and a
\* freed object is in no list, from which it would be freed again
FreedUnmarked(k) ==
    /\ \A h \in Before(k) : Live(gc', h) <=> h \in gc'.marked[k]
    /\ \A h \in Range(gc'.lists[k]) : Live(gc', h)
    /\ \A i, j \in DOMAIN gc.lists[k] : gc.lists[k][i] = gc.lists[k][j] => i = j

SweepStep == Collected => \A k \in KindSet : ListRestricted(k) /\ FreedUnmarked(k)

\* a handle of an object that was freed
Freed(h) == h # 0 /\ ~Live(gc, h)

\* no root, entry of the intern table or allocated object refers to a freed
\* object
NoDangling ==
    /\ \A root \in Roots(VM) : ~Freed(root[2])
    /\ \A h \in str_intern_table : ~Freed(h)
    /\ \A k \in KindSet : \A h \in Range(gc.lists[k]) : \A e \in Edges(<<k, h>>) : ~Freed(e[2])

\* C30: sweep keeps exactly the marked objects.  After an instruction that
\* ran a collection the list of every kind of object is its previous list
\* restricted to the marked handles, every unmarked object is freed, once,
\* and no marked one; and no allocated object, root or entry of the intern
\* table refers to a freed object.
C30_SweepKeepsMarked == [][SweepStep]_vars /\ [](phase = "run" => NoDangling)

\* C30: a collection freed strings and kept others, and the intern table
\* lost the entries of the freed ones
C30_Swept ==
    /\ phase = "run"
    /\ collections > 0
    /\ gc.marked["strings"] # {}
    /\ \E h \in 1..(gc.next_handle - 1) : Freed(h)
    /\ \A h \in str_intern_table : Live(gc, h)
    /\ Cardinality(str_intern_table) = Len(gc.lists["strings"])

-----------------------------------------------------------------------------
(* The collection cycle and the intern table *)

\* a cycle of the host of the intern table: collect_garbage and nothing else
CycleStep == phase = "intern" /\ last_op' = "collect" /\ collections' # collections

\* the marks after the cycle are those of this cycle: the roots, which for
\* the host are the handles it keeps, and not what an earlier cycle marked
MarksOfThisCycle ==
    CycleStep =>
       /\ gc'.marked["strings"] = {stack[i].n : i \in 1..Len(stack)}
       /\ \A k \in KindSet \ {"strings"} : gc'.marked[k] = {}

\* the table after a cycle: its entries from before whose string is marked
\* (in the VM the string the instruction interned before the cycle is one
\* more entry from before)
TablePurged ==
    /\ CycleStep =>
          /\ str_intern_table' = {h \in str_intern_table : h \in gc'.marked["strings"]}
          /\ \A h \in str_intern_table : Live(gc', h) <=> h \in str_intern_table'
    /\ Collected =>
          /\ {h \in str_intern_table' : h < gc.next_handle}
                = {h \in str_intern_table : h \in gc'.marked["strings"]}
          /\ \A h \in str_intern_table' : h \in gc'.marked["strings"] /\ Live(gc', h)

\* an intern call of the host returns the live string of the content, or a
\* string it allocates: never what a cycle freed
InternAfterFree ==
    (phase = "intern" /\ last_op' \in {"intern_slice", "intern_owned"}) =>
       LET h == Last(stack').n
       IN /\ Live(gc', h)
          /\ h \in str_intern_table'
          /\ h \notin str_intern_table <=> (h = gc.next_handle /\ gc'.next_handle = h + 1)
          /\ h \notin str_intern_table =>
                \A old \in str_intern_table : gc.heap[old].s # gc'.heap[h].s

\* C31: a collection cycle clears the previous marks, marks the roots,
\* traces, purges the intern table and sweeps, in this order; after it the
\* intern table holds exactly its entries from before whose string was
\* marked, so it never holds the handle of a freed string, and an intern of a
\* content that was freed allocates a fresh string.
C31_CyclePurgesTable ==
    /\ [][MarksOfThisCycle /\ TablePurged /\ InternAfterFree]_vars
    /\ [](\A h \in str_intern_table : Live(gc, h))

\* C31: the host interned a content, forgot it, ran a cycle that freed it,
\* and interned it again: the string is a fresh one, the table's only entry
C31_FreshAfterPurge ==
    /\ phase = "intern"
    /\ last_op \in {"intern_slice", "intern_owned"}
    /\ collections > 0
    /\ Len(stack) = 1
    /\ stack[1].n = 2
    /\ str_intern_table = {2}
    /\ ~Live(gc, 1)
    /\ gc.marked["strings"] = {}

-----------------------------------------------------------------------------
(* The threshold *)

\* the instruction ran a cycle, to its end or to the fault that ended the
\* process
CycleRan == collections' = collections + 1 \/ (gc_fault' /\ status' = "abort")

\* what the Add about to execute allocates: the concatenation, unless a live
\* string has its content
AddAllocates ==
    IF \E h \in LiveStrings : ContentOf(h) = Concatenation THEN 0
    ELSE SIZE_OF_STRING + Len(Concatenation)

\* the attempt of an Add runs a cycle iff the allocation has brought
\* bytes_allocated above next_gc
AddAttempt ==
    (Executing({"Add"}) /\ StringOperands) =>
       (CycleRan <=> gc.bytes_allocated + AddAllocates > gc.next_gc)

\* next_gc changes at the end of a cycle only, and to twice the bytes left
\* (an upvalue the Closure instruction captures is allocated after its cycle)
ThresholdMoves ==
    /\ gc'.next_gc # gc.next_gc => Collected
    /\ (Collected /\ ~Executing({"Closure"})) => gc'.next_gc = 2 * gc'.bytes_allocated

\* a cycle runs in an instruction that allocates, and an instruction that
\* has allocated ends with the threshold not exceeded
AttemptFollowsAllocation ==
    (phase = "run" /\ phase' = "run") =>
       /\ CycleRan => gc'.next_handle > gc.next_handle
       /\ (gc'.next_handle > gc.next_handle /\ status' = "running") => ~should_collect(gc')
       /\ Collected => ~should_collect(gc')

\* C32: the threshold policy.  An attempt runs a cycle iff bytes_allocated >
\* next_gc, strictly; next_gc is 1,048,576 until the first cycle and changes
\* at the end of a sweep only, to twice the bytes_allocated left; after a
\* cycle should_collect is false, and no cycle runs but after an allocation.
C32_ThresholdPolicy ==
    /\ [][phase = "run" => (AddAttempt /\ ThresholdMoves /\ AttemptFollowsAllocation)]_vars
    /\ []((phase = "run" /\ collections = 0) => gc.next_gc = 1048576)

\* C32: an Add has brought bytes_allocated to the threshold, to the byte,
\* and no cycle ran
C32_AtThreshold ==
    /\ prog.name = "threshold"
    /\ last_op = "Add"
    /\ status = "running"
    /\ gc.bytes_allocated = gc.next_gc
    /\ gc.next_gc = 1048576
    /\ collections = 0

-----------------------------------------------------------------------------
(* Allocation accounting *)

\* what the allocation of an object added to bytes_allocated: its sizeof
\* then, when the upvalue vector of a closure had the capacity Closure::new
\* gave it and the field map of an instance was empty
AllocatedSize(kind, o) ==
    CASE kind = "closures" ->
           SIZE_OF_PTR + sizeof_Vec(gc.heap[o.function].upvalue_count, SIZE_OF_PTR)
      [] kind = "class_instances" ->
           SIZE_OF_PTR + sizeof_HashMap(0, SIZE_OF_STRING, SIZE_OF_VALUE)
      [] OTHER -> sizeof(kind, o)

RECURSIVE SumAllocated(_, _, _)
SumAllocated(kind, s, i) ==
    IF i > Len(s) THEN 0
    ELSE AllocatedSize(kind, gc.heap[s[i]]) + SumAllocated(kind, s, i + 1)

\* the sum over the live objects
Accounted ==
    LET F[i \in 0..Len(Kinds)] ==
            IF i = 0 THEN 0 ELSE F[i - 1] + SumAllocated(Kinds[i], gc.lists[Kinds[i]], 1)
    IN F[Len(Kinds)]

\* C33: allocation accounting.  In every state of a run bytes_allocated is
\* the sum, over the live objects, of the size their allocation added, and
\* it has not underflowed: sweep subtracts for a freed object what its
\* allocation added, also when the field map of the instance or the upvalue
\* vector of the closure has grown since.
C33_AllocationAccounting ==
    (phase = "run" /\ status = "running") =>
       (gc.bytes_allocated = Accounted /\ gc.bytes_allocated >= 0)

\* C33: a cycle freed an instance that had got a field, and subtracted more
\* than its allocation had added
C33_SubtractedMore ==
    /\ prog.name = "accounting"
    /\ phase = "run"
    /\ status = "running"
    /\ collections = 1
    /\ gc.lists["class_instances"] = <<>>
    /\ gc.bytes_allocated
         = Accounted - sizeof_HashMap(MapCap(1), SIZE_OF_STRING, SIZE_OF_VALUE)
             + sizeof_HashMap(0, SIZE_OF_STRING, SIZE_OF_VALUE)

-----------------------------------------------------------------------------
(* Invoke *)

\* the argument count of the Invoke about to execute, the slot of its
\* receiver and its arguments
InvokeArgCount == ByteAt(VM, ip(VM) + 2)

ReceiverSlot == Len(stack) - InvokeArgCount

InvokeArguments == SubSeq(stack, ReceiverSlot + 1, Len(stack))

\* GetProperty with the name of the Invoke, on the receiver before the
\* arguments are pushed
PropertyRead ==
    op_GetProperty([Decoded EXCEPT !.stack = SubSeq(stack, 1, ReceiverSlot)],
                   [ub |-> "abort", junk |-> Nil])

\* ... and Call after they are pushed, if GetProperty has not ended the run
Unfused ==
    IF ~Running(PropertyRead) THEN PropertyRead
    ELSE call_value(Advance([PropertyRead EXCEPT !.stack = @ \o InvokeArguments], 1),
                    InvokeArgCount, [ub |-> "abort", junk |-> Nil])

\* the frames of a call stack: the closure and the first slot of each
Frames(frames) ==
    [i \in 1..Len(frames) |-> <<frames[i].closure, frames[i].stack_start>>]

SameCalls(r) ==
    /\ Frames(call_stack') = Frames(r.call_stack)
    /\ current_frame'.closure = r.current_frame.closure
    /\ current_frame'.stack_start = r.current_frame.stack_start
    /\ status' = r.status
    /\ output_stream' = r.output_stream

\* the Invoke about to execute is well formed: its receiver and arguments
\* are on the stack
InvokeReady ==
    Executing({"Invoke"}) /\ NameOperandOk(Decoded) /\ Len(stack) >= InvokeArgCount + 1

\* Invoke ends as GetProperty and Call do: the same value stack, call stack
\* and outcome
InvokeAsUnfused == InvokeReady => (SameCalls(Unfused) /\ stack' = Unfused.stack)

\* ... where GetProperty ends the run with a runtime error, Invoke ends it
\* with the arguments on the stack
InvokeFuses ==
    InvokeReady =>
       /\ SameCalls(Unfused)
       /\ stack' = IF Running(PropertyRead) THEN Unfused.stack
                   ELSE PropertyRead.stack \o InvokeArguments
       /\ (Running(PropertyRead) /\ status' = "runtime_error") =>
             err_stream' = Unfused.err_stream
       /\ gc' = gc
       /\ Unfused.gc # gc =>
             /\ Unfused.gc.lists["bound_methods"] # gc.lists["bound_methods"]
             /\ \A k \in KindSet \ {"bound_methods"} : Unfused.gc.lists[k] = gc.lists[k]

\* C34: Invoke is a fusion of GetProperty and Call.  Invoke name n, with the
\* receiver below the n arguments, ends in the same value stack, call stack
\* and success or runtime error as GetProperty name on the receiver before
\* the arguments are pushed and Call n after them; no bound method is
\* allocated and the wording of the error message differs.  (As stated.)
C34_InvokeIsGetPropertyCall == [][InvokeAsUnfused]_vars

\* C34, amended: the same, but that where the lookup of the name fails
\* (the receiver is no instance, or it has no such field or method), Invoke
\* reports the runtime error after the arguments were evaluated, with them
\* on the stack, and GetProperty before.
C34_InvokeFuses == [][InvokeFuses]_vars

\* C34: Invoke has called the method m with the receiver in slot 0 of the
\* frame and returned its argument
C34_MethodInvoked ==
    /\ prog.name = "invoke"
    /\ prog.what = "m"
    /\ prog.n = 1
    /\ phase = "done"
    /\ status = "ok"
    /\ output_stream = <<"7">>
    /\ gc.lists["bound_methods"] = <<>>

\* C34: Invoke of a name the receiver does not have, the two arguments on
\* the stack still
C34_ArgumentsLeft ==
    /\ prog.name = "invoke"
    /\ prog.what = "z"
    /\ prog.n = 2
    /\ last_op = "Invoke"
    /\ status = "runtime_error"
    /\ Len(stack) = 5
    /\ SubSeq(stack, 4, 5) = <<Number(7), Number(7)>>
    /\ err_stream[1] = "Runtime error: Undefined method 'z'"

-----------------------------------------------------------------------------
(* Upvalue resolution *)

\* the function a Closure instruction of f, written at n, makes a closure of
ClosureOf(f, n) == gc.heap[f.chunk.constants[n.num + 1].n]

\* the Closure instructions of a function, as the compiler recorded them
ClosuresIn(f) ==
    {i \in DOMAIN f.nums : OpFromByte(f.chunk.code[f.nums[i].at + 1]) = "Closure"}

\* the upvalue list written behind a Closure instruction: upvalue_count
\* pairs (is_local, index)
UpvaluePairs(f, n) ==
    [i \in 1..ClosureOf(f, n).upvalue_count |->
        <<f.chunk.code[n.at + 1 + 2 * i], f.chunk.code[n.at + 2 + 2 * i]>>]

\* the variable instructions of a function, in the order they were written
VariableOps ==
    {"GetLocal", "SetLocal", "GetUpvalue", "SetUpvalue", "GetGlobal", "SetGlobal",
     "DefineGlobal"}

VariableReads(f) ==
    LET Read(i) == <<OpFromByte(f.chunk.code[f.nums[i].at + 1]), f.nums[i].num>>
        Index(i) == i
        Variable(i) == Read(i)[1] \in VariableOps
    IN [k \in 1..Cardinality({i \in DOMAIN f.nums : Variable(i)}) |->
          Read(SelectSeq([i \in DOMAIN f.nums |-> Index(i)], Variable)[k])]

\* the instructions of f that read or write an upvalue name an entry of its
\* list
UpvalueOperandsListed(f) ==
    \A i \in DOMAIN f.nums :
       OpFromByte(f.chunk.code[f.nums[i].at + 1]) \in {"GetUpvalue", "SetUpvalue"}
          => f.nums[i].num < f.upvalue_count

\* the list of a closure of f has upvalue_count entries, no two of them equal;
\* an entry (1, index) names a local of f and an entry (0, index) an entry of
\* the list of f
UpvalueListsWellFormed ==
    \A f \in CompiledFunctions :
       /\ UpvalueOperandsListed(f)
       /\ \A c \in ClosuresIn(f) :
             LET Listed(n, pairs) ==
                     /\ n.at + 2 + 2 * Len(pairs) <= Len(f.chunk.code)
                     /\ \A i, j \in DOMAIN pairs : pairs[i] = pairs[j] => i = j
                     /\ \A i \in DOMAIN pairs :
                           /\ pairs[i][1] \in {0, 1}
                           /\ pairs[i][1] = 0 => pairs[i][2] < f.upvalue_count
             IN Listed(f.nums[c], UpvaluePairs(f, f.nums[c]))

FunctionNamed(name) == CHOOSE f \in CompiledFunctions : f.name = name

\* the list written behind the Closure instruction that `outer` has for
\* `inner`
PairsOf(outer, inner) ==
    LET f == FunctionNamed(outer)
    IN UpvaluePairs(f, f.nums[CHOOSE c \in ClosuresIn(f) :
                                 ClosureOf(f, f.nums[c]).name = inner])

\* the program of the nested functions: z is a local of inner; x is a local
\* of outer, the upvalue (1, 0) of middle, which reads it before inner is
\* declared, and (0, 0) of inner and of deep; y is
\* the local of middle, (1, 0) in inner; x again is the same upvalue; g is a
\* global
UpvaluesOutcome ==
    (prog.name = "upvalues" /\ phase = "run") =>
       /\ PairsOf("<main>", "outer") = <<>>
       /\ PairsOf("outer", "middle") = <<<<1, 0>>>>
       /\ PairsOf("middle", "inner") = <<<<0, 0>>, <<1, 0>>>>
       /\ PairsOf("inner", "deep") = <<<<0, 0>>>>
       /\ VariableReads(FunctionNamed("deep")) = <<<<"GetUpvalue", 0>>>>
       /\ VariableReads(FunctionNamed("inner"))
            = <<<<"GetLocal", 0>>, <<"GetUpvalue", 0>>, <<"GetUpvalue", 1>>,
                <<"GetUpvalue", 0>>, <<"GetGlobal", 1>>>>
       /\ VariableReads(FunctionNamed("middle")) = <<<<"GetUpvalue", 0>>>>
       /\ \A name \in {"outer", "middle", "inner", "deep"} :
             FunctionNamed(name).upvalue_count
               = ("outer" :> 0 @@ "middle" :> 1 @@ "inner" :> 2 @@ "deep" :> 1)[name]

\* C35: upvalue resolution.  A name used in a nested function resolves to a
\* local of the function, else to a local of the directly enclosing function
\* (the function gets the upvalue (is_local, slot)), else to an upvalue of the
\* enclosing function (every function in between gets an upvalue, the
\* function gets (not is_local, index there)), else to a global; resolving a
\* variable again gives the same index, no list has two equal entries, and
\* upvalue_count is the length of the list.
C35_UpvalueResolution ==
    (prog.kind = "source" /\ phase \in {"run", "done"} /\ ~comp.had_error)
       => (UpvalueListsWellFormed /\ UpvaluesOutcome)

\* C35: the nested functions are compiled, x resolved twice in inner
C35_ResolvedThroughTwoFunctions ==
    /\ prog.name = "upvalues"
    /\ phase = "run"
    /\ ~comp.had_error
    /\ FunctionNamed("inner").upvalue_count = 2
    /\ Cardinality({i \in DOMAIN FunctionNamed("inner").nums :
                       FunctionNamed("inner").nums[i].num = 0
                         /\ OpFromByte(FunctionNamed("inner").chunk.code[
                                          FunctionNamed("inner").nums[i].at + 1])
                              = "GetUpvalue"}) = 2

-----------------------------------------------------------------------------
(* break and continue *)

StatementMarks(f) == {m \in Range(f.marks) : m.what = "statement"}

ExitMarks(f) == {m \in StatementMarks(f) : m.kind \in {"Break", "Continue"}}

Spans(m) == m.to - m.from

Contains(outer, inner) == outer.from <= inner.from /\ inner.to <= outer.to

\* the loop statements of f a statement lies in, and the innermost of them
LoopsAround(f, m) ==
    {l \in StatementMarks(f) : l.kind \in {"While", "For"} /\ Contains(l, m)}

InnermostLoop(f, m) ==
    CHOOSE l \in LoopsAround(f, m) : \A l2 \in LoopsAround(f, m) : Spans(l) <= Spans(l2)

\* the body of that loop: the largest statement inside the loop around m
LoopBody(f, m) ==
    LET Inside(b) ==
            /\ Contains(InnermostLoop(f, m), b)
            /\ Contains(b, m)
            /\ Spans(b) < Spans(InnermostLoop(f, m))
    IN CHOOSE b \in StatementMarks(f) :
          Inside(b) /\ \A b2 \in StatementMarks(f) : Inside(b2) => Spans(b2) <= Spans(b)

\* the locals declared in the loop body that are live at m
Unwound(f, m) == m.locals_before - LoopBody(f, m).locals_before

JumpTarget(f, at) == (CHOOSE j \in Range(f.jumps) : j.at = at).target

\* where the exit goes: break past the loop, before the Pop of the variable
\* of a for clause, continue where the jump back after the body goes
ExitTarget(f, m) ==
    IF m.kind = "Break"
    THEN InnermostLoop(f, m).to
           - (LoopBody(f, m).locals_before - InnermostLoop(f, m).locals_before)
    ELSE JumpTarget(f, LoopBody(f, m).to + 1)

\* the code of a break or continue: a Pop or CloseUpvalue for every local of
\* the loop body, then the jump; the compiler keeps its locals
ExitCompiled(f, m) ==
    /\ LoopsAround(f, m) # {}
    /\ m.locals_after = m.locals_before
    /\ m.to = m.from + Unwound(f, m) + 3
    /\ \A i \in 1..Unwound(f, m) :
          OpFromByte(f.chunk.code[m.from + i]) \in {"Pop", "CloseUpvalue"}
    /\ OpFromByte(f.chunk.code[m.to - 2]) = (IF m.kind = "Break" THEN "Jump" ELSE "Loop")
    /\ \E j \in Range(f.jumps) : j.at = m.to - 2
    /\ JumpTarget(f, m.to - 2) = ExitTarget(f, m)

ExitsCompiled ==
    (prog.kind = "source" /\ phase \in {"run", "done"}) =>
       \A f \in CompiledFunctions : \A m \in ExitMarks(f) : ExitCompiled(f, m)

\* the jump of a break or continue is taken with the stack as it was when the
\* loop was entered and no open upvalue at or above its top
ExitStep ==
    (Executing({"Jump", "Loop"}) /\ prog.kind = "source") =>
       \A m \in ExitMarks(FrameFunction(VM, current_frame)) :
          ip(VM) = m.to - 3 =>
             /\ current_frame'.ip = ExitTarget(FrameFunction(VM, current_frame), m)
             /\ Len(stack') - current_frame'.stack_start
                  = FrameBase + LoopBody(FrameFunction(VM, current_frame), m).locals_before
             /\ \A i \in DOMAIN open_upvalues' : open_upvalues'[i].stack_index < Len(stack')

OutsideIsError ==
    (prog.name = "outside" /\ phase = "done") =>
       /\ status = "compile_error"
       /\ err_stream # <<>>
       /\ err_stream[1] = "[line 1] Error at '" \o prog.exit \o "': Cannot use '"
                            \o prog.exit \o "' outside of a loop"

\* C36: break and continue unwind exactly the loop body's locals: each emits
\* one Pop or CloseUpvalue for every local that is live there and was declared
\* deeper than the scope depth of the innermost loop, and the compiler keeps
\* those locals; break then goes to the first instruction after the loop and
\* continue to the loop start, with the stack at the height it had when the
\* loop was entered and no open upvalue left above that height; break or
\* continue outside any loop of the current function is a compile error.
C36_ExitsUnwindLoopBody == []ExitsCompiled /\ [][ExitStep]_vars /\ []OutsideIsError

\* C36: in a called function a break has unwound the locals of the loop body,
\* one of them captured, and the upvalue of the capture is still open above
\* the stack
C36_UpvalueLeftOpen ==
    /\ prog.name = "loop_exit"
    /\ prog.called
    /\ Executing({"Jump"})
    /\ \E m \in ExitMarks(FrameFunction(VM, current_frame)) :
          /\ ip(VM) = m.to - 3
          /\ Unwound(FrameFunction(VM, current_frame), m) = 4
    /\ \E i \in DOMAIN open_upvalues : open_upvalues[i].stack_index >= Len(stack)

-----------------------------------------------------------------------------
(* Error recovery *)

StatementStarts == {"For", "If", "While", "Fun", "Var", "Class", "Print", "Return"}

\* the compiler where the step that reports an error failed: in the first
\* advance of compile(), or in a declaration
Failure == IF phase = "compile_begin" THEN advance(comp) ELSE descend("declaration", comp, 0)

DeclarationFailed ==
    /\ phase \in {"compile_begin", "compile"}
    /\ prog.kind = "source"
    /\ Len(comp'.err_stream) > Len(comp.err_stream)
    /\ Failed(Failure)

\* after an error the tokens from the current one on are discarded up to the
\* first that begins a statement, which is kept, or to the first semicolon,
\* which is discarded too; stops is the kinds of token that are kept
SynchronizesAt(stops) ==
    DeclarationFailed =>
       LET from == Failure.pos - 1
           to == comp'.pos - 1
       IN /\ comp'.curr_token = comp.toks[to]
          /\ \/ comp'.curr_token.kind \in stops
             \/ to > from /\ comp.toks[to - 1].kind = "Semicolon"
          /\ \A i \in from..(to - 1) :
                /\ comp.toks[i].kind \notin stops
                /\ comp.toks[i].kind = "Semicolon" => i = to - 1

\* C37: after a compile error synchronize discards tokens and stops, without
\* consuming it, at the first token that is one of for, if, while, fun, var,
\* class, print, return or the end of file, or just after the first
\* semicolon, whichever comes first; compilation resumes from that token.
C37_SynchronizeStops == [][SynchronizesAt(StatementStarts \cup {"Eof"})]_vars

\* C37: the compiler has reported an error before a class keyword and has
\* resumed at the print statement behind the class declaration
C37_ClassDiscarded ==
    /\ prog = ErrSkip("class")
    /\ phase = "compile"
    /\ err_stream = <<"[line 1] Error at '1': Expected variable name">>
    /\ comp.curr_token.kind = "Print"
    /\ comp.pos - 1 = 7

-----------------------------------------------------------------------------
(* Global numbering *)

GlobalOps ==
    {"DefineGlobal", "GetGlobal", "SetGlobal",
     "DefineGlobalLong", "GetGlobalLong", "SetGlobalLong"}

\* the global indexes in the code of a function
GlobalIndexes(f) ==
    {f.nums[i].num : i \in {k \in DOMAIN f.nums :
                              OpFromByte(f.chunk.code[f.nums[k].at + 1]) \in GlobalOps}}

\* no name has two indexes; the natives come first
Dense(names) ==
    /\ \A i, j \in DOMAIN names : names[i] = names[j] => i = j
    /\ \A i \in DOMAIN get_native_funcs : names[i] = get_native_funcs[i].name

\* the names have the indexes they had, a new name the next index
NumberingStable ==
    /\ IsPrefix(global_var_names, global_var_names')
    /\ phase \in {"compile_begin", "compile"} => IsPrefix(comp.sym_table, comp'.sym_table)
    /\ phase = "run" => global_var_names' = global_var_names

\* one slot for every name, the natives defined and the others undefined
\* when the run begins
SlotPerName ==
    (prog.kind = "source" /\ phase = "run") =>
       /\ Len(globals) = Len(global_var_names)
       /\ last_op = "None" =>
             \A i \in DOMAIN globals : globals[i].some <=> i <= Len(get_native_funcs)
       /\ \A f \in CompiledFunctions : \A index \in GlobalIndexes(f) :
             index < Len(globals) /\ index < Len(global_var_names)

\* the program that declares a and b, assigns, declares a again, and names
\* clock, d and c for the first time in that order
NumberingOutcome ==
    (prog.name = "numbering" /\ phase = "run") =>
       /\ global_var_names = <<"clock", "a", "b", "f", "d", "c">>
       /\ VariableReads(FunctionNamed("<main>"))
            = <<<<"DefineGlobal", 1>>, <<"DefineGlobal", 2>>, <<"GetGlobal", 2>>,
                <<"SetGlobal", 1>>, <<"DefineGlobal", 1>>, <<"DefineGlobal", 3>>,
                <<"GetGlobal", 5>>>>
       /\ VariableReads(FunctionNamed("f"))
            = <<<<"GetGlobal", 0>>, <<"SetGlobal", 2>>, <<"GetGlobal", 4>>>>
       /\ status = "runtime_error" =>
             err_stream[1] = "Runtime error: Undefined variable 'c'"

\* C38: global numbering is dense and stable.  Each distinct global name has
\* the index equal to the number of distinct names added before it; adding
\* or resolving a name again gives the same index and changes no other; the
\* globals vector has one slot per name, the native functions first and
\* defined, the others undefined at the start; every global index in the
\* compiled code is within the globals vector and the list of names.
C38_GlobalNumbering ==
    /\ [](prog.kind = "source" => Dense(global_var_names))
    /\ [][prog.kind = "source" => NumberingStable]_vars
    /\ []SlotPerName
    /\ []NumberingOutcome

\* C38: names were declared and resolved again, and the run stopped at the
\* global that was only resolved
C38_ResolvedAgain ==
    /\ prog.name = "numbering"
    /\ status = "runtime_error"
    /\ last_op = "GetGlobal"
    /\ Len(globals) = 6
    /\ globals[2] = Some(Number(3))

-----------------------------------------------------------------------------
(* Call frames *)

\* the cached frame is the top frame but for its ip; the frames begin inside
\* the stack, each one at or above the one beneath it, and above it from the
\* first called frame on
FramesNested ==
    /\ call_stack # <<>>
    /\ Last(call_stack).closure = current_frame.closure
    /\ Last(call_stack).stack_start = current_frame.stack_start
    /\ \A i \in DOMAIN call_stack : call_stack[i].stack_start <= Len(stack)
    /\ \A i \in 1..(Len(call_stack) - 1) :
          /\ call_stack[i].stack_start <= call_stack[i + 1].stack_start
          /\ i >= 2 => call_stack[i].stack_start < call_stack[i + 1].stack_start
    /\ Len(call_stack) <= VEC_SIZE + 1

\* C39: call frames are properly nested.  At every instruction boundary the
\* cached current_frame has the closure and the stack_start of the top entry
\* of call_stack; the stack_start of every frame is at most the stack height;
\* stack_start does not decrease from the bottom frame to the top frame and
\* increases between consecutive frames above the first called frame; so the
\* call depth is at most the maximum stack size plus one.
C39_FramesNested == (phase = "run" /\ status = "running") => FramesNested

\* C39: the recursion has filled the stack: one frame for every slot and the
\* frame of the main function
C39_DeepestNesting ==
    /\ phase = "run"
    /\ status = "running"
    /\ Len(call_stack) = VEC_SIZE + 1
    /\ Len(stack) = VEC_SIZE
    /\ call_stack[2].stack_start = 0
    /\ current_frame.stack_start = VEC_SIZE - 1

-----------------------------------------------------------------------------
(* Termination of compile *)

Compiling == phase \in {"compile_begin", "compile"} /\ prog.kind = "source"

\* the tokens of a source end with Eof, the only one; at the end of the
\* source the scanner returns it again, and advance stays there
EofForever ==
    Compiling =>
       /\ \A i \in DOMAIN comp.toks : comp.toks[i].kind = "Eof" <=> i = Len(comp.toks)
       /\ comp.pos \in 1..(Len(comp.toks) + 1)
       /\ comp.pos > Len(comp.toks) =>
             /\ scan_token(comp).kind = "Eof"
             /\ advance(comp).curr_token.kind = "Eof"
             /\ advance(comp).pos = comp.pos
             /\ advance(advance(comp)).curr_token.kind = "Eof"

\* an iteration of the loop of compile() reads at least one token and ends at
\* or before Eof
ConsumesToken ==
    (Compiling /\ phase = "compile" /\ phase' = "compile") =>
       /\ comp'.pos > comp.pos
       /\ comp'.pos <= Len(comp.toks) + 1
       /\ comp'.toks = comp.toks

====
